---------------------------- MODULE Spec2Model ----------------------------
(***************************************************************************)
(* Model of raycast-scoop: the version check engine (Scoop.checkNewVersion *)
(* in src/core/index.ts) and the handlers of scoop-list.tsx that consume   *)
(* its result (Spec); the Executable Locator, the Manifest Reader, the     *)
(* enumeration of installed packages and the external command runner, in   *)
(* both generations of the source the repository holds (SpecCore).         *)
(*                                                                         *)
(* Text is a sequence of tokens.  Version text is kept character by        *)
(* character ("v", "2", ".", ...); text whose inner structure no code of   *)
(* the repository inspects (a URL scheme, a JSON key, an XML tag, a regex  *)
(* source) is one token.  The empty sequence is the empty string.          *)
(***************************************************************************)
EXTENDS Integers, Sequences, FiniteSets, Bags, TLC

VARIABLES
  app,          \* the AppInfo record handed to the handlers
  appVersionInfo, \* the cached version entry of app (useCachedState)
  pc,           \* position of handleCheckNewVersion / checkNewVersion
  requests,     \* the fetch calls issued so far: <<[url, ua]>>
  response,     \* what the network delivered for the pending fetch
  compiled,     \* the regex sources handed to new RegExp, in order
  reSubject,    \* the text the compiled regex was run against
  matches,      \* what the regex engine returned for it
  latest,       \* the release entry selected by releases.find
  raw,          \* outcome of _checkNewVersion: [type, value]
  settled,      \* how the promise of checkNewVersion settled
  result,       \* the value checkNewVersion resolved with
  toast,        \* the toast shown last by handleCheckNewVersion
  versionStatus, \* what getAppVersionStatus(app) computed last
  call,         \* the core function called and the inputs it reads
  cpc,          \* position of that call
  effects,      \* its side effects so far: fs accesses, child processes
  outcome,      \* how the call ended: what it returned or threw
  results,      \* getScoopList: what each subdirectory resolved to
  view,         \* the command that is open: the installed list or the search
  apps,         \* useCachedState('scoop-app-list'): apps / installedAppList
  appVersionCache, \* useCachedState('scoop-app-version-info') of the list view
  selectedBucket, \* the bucket filter of the dropdown, <<>> for null
  handlers,     \* the bag of handler invocations that have not returned:
                \* what each closed over and the commands it ran
  ended,        \* the handler invocation that returned in the last step
  invoked,      \* the number of handler invocations of the user so far
  availableAppsCache, \* useCachedState('scoop-available-apps') of the search
  allAvailableApps, \* the catalog entries the search view displays
  clock         \* Date.now()

\* the state of the version check and of the list that shows it
checkVars == <<app, appVersionInfo, pc, requests, response, compiled, reSubject,
               matches, latest, raw, settled, result, toast, versionStatus>>

\* the state of a call into the core
coreVars == <<call, cpc, effects, outcome, results>>

\* the state of the two views
uiVars == <<view, apps, appVersionCache, selectedBucket, handlers, ended, invoked,
            availableAppsCache, allAvailableApps, clock>>

vars == <<app, appVersionInfo, pc, requests, response, compiled, reSubject,
          matches, latest, raw, settled, result, toast, versionStatus,
          call, cpc, effects, outcome, results,
          view, apps, appVersionCache, selectedBucket, handlers, ended, invoked,
          availableAppsCache, allAvailableApps, clock>>

\* no view is open
ViewClosed ==
  /\ view = "none"
  /\ apps = <<>>
  /\ appVersionCache = <<>>
  /\ selectedBucket = <<>>
  /\ handlers = <<>>
  /\ ended = <<>>
  /\ invoked = 0
  /\ availableAppsCache = <<>>
  /\ allAvailableApps = <<>>
  /\ clock = 0

-----------------------------------------------------------------------------
(* Bounds of the model *)

\* longest list the regex engine returns for one matchAll
MaxMatches == 3
\* longest releases list the GitHub API returns
MaxReleases == 2
\* deepest nesting of the lists of a shortcuts or bin declaration
MaxDepth == 2
\* most subdirectories of apps
MaxDirs == 3

-----------------------------------------------------------------------------
(* Text helpers *)

\* JavaScript's undefined, where a text may be missing
Undefined == <<"#undefined">>

Digits == {"0", "1", "2", "3", "4", "5", "6", "7", "8", "9"}
Letters == {"a", "c", "e", "i", "n", "o", "r", "s", "t", "v", "V"}
Whitespace == {" ", "\n"}

IsDigit(c) == c \in Digits

\* [0-9A-Za-z-]
IsIdChar(c) == c \in Digits \cup Letters \cup {"-"}

\* index of the first token of s that is in set cs, 0 when there is none
RECURSIVE IndexFrom(_, _, _)
IndexFrom(s, cs, i) ==
  IF i > Len(s) THEN 0
  ELSE IF s[i] \in cs THEN i
  ELSE IndexFrom(s, cs, i + 1)

IndexOf(s, cs) == IndexFrom(s, cs, 1)

\* s without its first n tokens
Drop(s, n) == SubSeq(s, n + 1, Len(s))

\* s split at every token "." (String.prototype.split semantics)
RECURSIVE SplitDots(_)
SplitDots(s) ==
  LET i == IndexOf(s, {"."})
  IN IF i = 0 THEN <<s>>
     ELSE <<SubSeq(s, 1, i - 1)>> \o SplitDots(Drop(s, i))

\* String.prototype.trim
RECURSIVE TrimLeft(_)
TrimLeft(s) ==
  IF Len(s) > 0 /\ s[1] \in Whitespace THEN TrimLeft(Tail(s)) ELSE s

RECURSIVE TrimRight(_)
TrimRight(s) ==
  IF Len(s) > 0 /\ s[Len(s)] \in Whitespace
  THEN TrimRight(SubSeq(s, 1, Len(s) - 1)) ELSE s

Trim(s) == TrimRight(TrimLeft(s))

\* s.replace(/^[=v]+/, '')
RECURSIVE StripEqV(_)
StripEqV(s) ==
  IF Len(s) > 0 /\ s[1] \in {"=", "v"} THEN StripEqV(Tail(s)) ELSE s

-----------------------------------------------------------------------------
(* semver.clean, strict mode *)

\* 0|[1-9]\d*
IsNumericId(s) ==
  /\ Len(s) > 0
  /\ \A i \in 1..Len(s) : IsDigit(s[i])
  /\ (Len(s) = 1 \/ s[1] # "0")

\* \d*[a-zA-Z-][a-zA-Z0-9-]*
IsNonNumericId(s) ==
  /\ Len(s) > 0
  /\ \A i \in 1..Len(s) : IsIdChar(s[i])
  /\ \E i \in 1..Len(s) : ~IsDigit(s[i])

\* a prerelease is dot-separated identifiers, numeric or with a letter or dash
IsPrerelease(s) ==
  LET ids == SplitDots(s)
  IN \A i \in 1..Len(ids) : IsNumericId(ids[i]) \/ IsNonNumericId(ids[i])

\* build metadata is dot-separated [0-9A-Za-z-]+
IsBuild(s) ==
  LET ids == SplitDots(s)
  IN \A i \in 1..Len(ids) :
       Len(ids[i]) > 0 /\ \A j \in 1..Len(ids[i]) : IsIdChar(ids[i][j])

\* major.minor.patch, each a numeric identifier
IsMainVersion(s) ==
  LET ids == SplitDots(s)
  IN Len(ids) = 3 /\ \A i \in 1..3 : IsNumericId(ids[i])

\* the parts of ^v?MAIN(-PRERELEASE)?(\+BUILD)?$ ; ok is FALSE when s is
\* no semantic version
ParseSemver(s) ==
  LET body  == IF Len(s) > 0 /\ s[1] = "v" THEN Tail(s) ELSE s
      plus  == IndexOf(body, {"+"})
      head  == IF plus = 0 THEN body ELSE SubSeq(body, 1, plus - 1)
      build == IF plus = 0 THEN <<>> ELSE Drop(body, plus)
      dash  == IndexOf(head, {"-"})
      main  == IF dash = 0 THEN head ELSE SubSeq(head, 1, dash - 1)
      pre   == IF dash = 0 THEN <<>> ELSE Drop(head, dash)
  IN [ok   |-> /\ IsMainVersion(main)
               /\ (dash # 0 => IsPrerelease(pre))
               /\ (plus # 0 => IsBuild(build)),
      main |-> main,
      pre  |-> pre]

\* SemVer.format(): major.minor.patch, then -prerelease; the build is dropped
FormatSemver(p) ==
  IF Len(p.pre) = 0 THEN p.main ELSE p.main \o <<"-">> \o p.pre

\* null of semver.clean
Null == <<"#null">>

\* clean(version): parse(version.trim().replace(/^[=v]+/, ''))?.version
clean(version) ==
  LET p == ParseSemver(StripEqV(Trim(version)))
  IN IF p.ok THEN FormatSemver(p) ELSE Null


-----------------------------------------------------------------------------
(* Values of the AppInfo fields and of the checkver configuration *)

\* homepage: a GitHub page in the forms the prefix pattern accepts, another
\* site, the empty default of getAppInfo, and a record without homepage
HomeGithub == <<"https://", "github.com/", "owner/repo">>
HomeGithubWww == <<"http://", "www.", "github.com/", "owner/repo">>
HomeOther == <<"https://", "example.org/", "download">>
Homepages == {HomeGithub, HomeGithubWww, HomeOther, <<>>, Undefined}

\* the declared version of the installed package
Version200 == <<"2", ".", "0", ".", "0">>
Versions == {Version200}

\* regex sources: new RegExp accepts the first two and throws on the third
RegexSrc == <<"v?([\\d.]+)">>
RegexAliasSrc == <<"(?<major>\\d+)\\.(?<minor>\\d+)(?<build>-\\d+)?">>
RegexMalformed == <<"([\\d.]+">>
Malformed == {RegexMalformed}

\* the text ${key} of a replace template, one token per group name
Placeholder(key) ==
  CASE key = "major" -> "${major}"
    [] key = "minor" -> "${minor}"
    [] key = "build" -> "${build}"

TemplateMajorMinor == <<"${major}", ".", "${minor}", ".", "0">>
TemplateTwice == <<"${major}", ".", "${major}", ".", "${minor}">>
TemplateBuild == <<"${major}", ".", "${minor}", ".", "0", "${build}">>
Templates == {TemplateMajorMinor, TemplateTwice, TemplateBuild}

UserAgentDefault == <<"Mozilla/5.0">>
UserAgentCustom == <<"Scoop/1.0">>

GithubRepoUrl == <<"https://", "github.com/", "other/project">>
SourceforgeProject == <<"project">>
SourceforgePath == <<"/", "files">>
CheckUrl == <<"https://", "example.org/", "latest.txt">>
ScriptSrc == <<"Invoke-WebRequest">>

\* a checkver of type object; a field that is absent or '' is <<>>
\* (both are falsy, and the code only tests truthiness)
ObjectCheckver(script, github, sourceforge, sourceforgepath, url, regex, re, replace, reverse, userAgent) ==
  [type |-> "object", str |-> <<>>, script |-> script, github |-> github,
   sourceforge |-> sourceforge, sourceforgepath |-> sourceforgepath,
   url |-> url, regex |-> regex, re |-> re, replace |-> replace,
   reverse |-> reverse, userAgent |-> userAgent]

\* a checkver of type string
StringCheckver(str) ==
  [type |-> "string", str |-> str, script |-> <<>>, github |-> <<>>,
   sourceforge |-> <<>>, sourceforgepath |-> <<>>, url |-> <<>>,
   regex |-> <<>>, re |-> <<>>, replace |-> <<>>, reverse |-> FALSE,
   userAgent |-> <<>>]

\* the default of getAppInfo for a manifest without checkver
DefaultCheckver ==
  ObjectCheckver(<<>>, <<>>, <<>>, <<>>, <<>>, <<>>, <<>>, <<>>, FALSE, <<>>)

StringCheckvers ==
  {StringCheckver(s) : s \in {<<"github">>, RegexSrc, RegexMalformed}}

\* regex and its alias re, as declared together
RegexPairs ==
  {<<<<>>, <<>>>>, <<RegexSrc, <<>>>>, <<<<>>, RegexAliasSrc>>,
   <<RegexSrc, RegexAliasSrc>>, <<RegexMalformed, <<>>>>,
   <<<<>>, RegexMalformed>>}

\* one source selector with every combination of the extraction directives
GithubCheckvers ==
  {ObjectCheckver(<<>>, GithubRepoUrl, <<>>, <<>>, <<>>, rp[1], rp[2], t,
                  FALSE, ua) :
     rp \in RegexPairs, t \in {<<>>} \cup Templates,
     ua \in {<<>>, UserAgentCustom}}

SourceforgeCheckvers ==
  {ObjectCheckver(<<>>, <<>>, SourceforgeProject, p, <<>>, rp[1], rp[2],
                  <<>>, FALSE, <<>>) :
     rp \in RegexPairs, p \in {<<>>, SourceforgePath}}

UrlCheckvers ==
  {ObjectCheckver(<<>>, <<>>, <<>>, <<>>, CheckUrl, rp[1], rp[2], t, rv, ua) :
     rp \in RegexPairs, t \in {<<>>} \cup Templates, rv \in BOOLEAN,
     ua \in {<<>>, UserAgentCustom}}

\* every combination of script and the three source selectors, with a regex
\* and a replace template declared alongside
MixedCheckvers ==
  {ObjectCheckver(s, g, sf, <<>>, u, RegexSrc, <<>>, TemplateMajorMinor,
                  TRUE, UserAgentCustom) :
     s \in {<<>>, ScriptSrc}, g \in {<<>>, GithubRepoUrl},
     sf \in {<<>>, SourceforgeProject}, u \in {<<>>, CheckUrl}}

Checkvers ==
  StringCheckvers \cup {DefaultCheckver} \cup GithubCheckvers
    \cup SourceforgeCheckvers \cup UrlCheckvers \cup MixedCheckvers

\* the records handed to checkNewVersion; homepage only matters to a
\* checkver of type string
AppInfo(version, homepage, checkver, bucket) ==
  [appName |-> "app", version |-> version, homepage |-> homepage,
   checkver |-> checkver, bucket |-> bucket]

\* installContent.bucket, and the default of getAppInfo without it
BucketMain == <<"main">>
BucketUnknown == <<"unknown">>

Apps ==
  {AppInfo(v, h, c, BucketMain) :
     v \in Versions, h \in Homepages, c \in StringCheckvers}
    \cup {AppInfo(v, HomeOther, c, BucketMain) :
             v \in Versions, c \in Checkvers \ StringCheckvers}
    \cup {AppInfo(v, HomeOther, DefaultCheckver, BucketUnknown) : v \in Versions}

-----------------------------------------------------------------------------
(* The network: what a fetch can deliver *)

Release(tag, pre) == [tag_name |-> tag, prerelease |-> pre]

\* releases.find(...) found nothing: latest is undefined
NoRelease == Release(Undefined, TRUE)

TagV200 == <<"v", "2", ".", "0", ".", "0">>
Tag123 == <<"1", ".", "2", ".", "3">>
TagRc == <<"v", "2", ".", "1", ".", "0", "-", "r", "c", "1">>
TagUpperV == <<"V", "7", ".", "8", ".", "1">>

\* entries of the releases list, as GET /repos/{owner}/{repo}/releases
\* returns them: tag_name a string, prerelease a boolean
Releases ==
  {Release(TagRc, TRUE), Release(TagV200, FALSE), Release(Tag123, FALSE),
   Release(TagUpperV, FALSE)}

RECURSIVE SeqsUpTo(_, _)
SeqsUpTo(S, n) ==
  IF n = 0 THEN {<<>>}
  ELSE LET shorter == SeqsUpTo(S, n - 1)
       IN shorter \cup {Append(q, x) : q \in shorter, x \in S}

\* a response body: not JSON at all, a JSON object (the API's error
\* message), a JSON list of releases, or plain text
Body(kind, list, text) == [kind |-> kind, list |-> list, text |-> text]

NoResponse == Body("none", <<>>, <<>>)

ApiBodies ==
  {Body("notjson", <<>>, <<>>), Body("object", <<>>, <<>>)}
    \cup {Body("list", l, <<>>) : l \in SeqsUpTo(Releases, MaxReleases)}

DigitOf(i) ==
  CASE i = 1 -> "1" [] i = 2 -> "2" [] i = 3 -> "3" [] i = 4 -> "4"
    [] i = 5 -> "5" [] i = 6 -> "6" [] i = 7 -> "7" [] i = 8 -> "8"
    [] OTHER -> "9"

\* a page listing the versions v1.4.0, v2.4.0, v3.4.0, ... oldest first
RECURSIVE PageText(_)
PageText(n) ==
  IF n = 0 THEN <<>>
  ELSE PageText(n - 1) \o (IF n = 1 THEN <<>> ELSE <<" ">>)
         \o <<"v", DigitOf(n), ".", "4", ".", "0">>

PageBodies ==
  {Body("text", <<>>, PageText(MaxMatches)),
   Body("text", <<>>, <<"n", "o", "t", "-", "a", "-", "v", "e", "r", "s",
                        "i", "o", "n">>)}

LinkUrl == <<"https://sourceforge.net/projects/project/files/", "v", "1", ".",
             "2", ".", "3", "/download">>
LinkVersion == <<"1", ".", "2", ".", "3">>

\* RSS feeds: links on one line each, a feed without link, an empty link
RssBodies ==
  {Body("text", <<>>, <<"<rss>", "\n", "<link>">> \o LinkUrl
                        \o <<"</link>", "\n", "<link>">> \o LinkVersion
                        \o <<"</link>", "</rss>">>),
   Body("text", <<>>, <<"<rss>", "<link>">> \o LinkVersion
                        \o <<"</link>", "<link>">> \o LinkUrl
                        \o <<"</link>", "</rss>">>),
   Body("text", <<>>, <<"<rss>", "\n", "</rss>">>),
   Body("text", <<>>, <<"<rss>", "<link>", "</link>", "</rss>">>)}

-----------------------------------------------------------------------------
(* The regex engine: what matchAll / match can return for a subject *)

\* a match: match[0], match[1] (Undefined when the regex has no group or the
\* group took no part) and match.groups as <<name, text>> pairs in the order
\* of the groups in the regex (<<>> when the regex has no named group)
Match(whole, g1, groups) == [whole |-> whole, g1 |-> g1, groups |-> groups]

WordChars == Digits \cup Letters \cup {".", "-"}

\* the maximal runs of version characters of a text, in order
RECURSIVE WordsOf(_)
WordsOf(s) ==
  IF Len(s) = 0 THEN <<>>
  ELSE IF s[1] \notin WordChars THEN WordsOf(Tail(s))
  ELSE LET stop == IndexOf(s, {c \in {s[i] : i \in 1..Len(s)} :
                                 c \notin WordChars})
           word == IF stop = 0 THEN s ELSE SubSeq(s, 1, stop - 1)
       IN <<word>> \o WordsOf(Drop(s, Len(word)))

\* a word from its first digit on
RECURSIVE Core(_)
Core(w) ==
  IF Len(w) = 0 \/ IsDigit(w[1]) THEN w ELSE Core(Tail(w))

\* how the regex of the manifest is built: no group, one group around the
\* digits, one group around the whole word, two named groups, and two named
\* groups followed by an optional one that took no part in the match
Shapes == {"whole", "digits", "word", "named", "optional"}

MatchOf(w, shape) ==
  LET core  == Core(w)
      major == IF Len(core) >= 1 THEN <<core[1]>> ELSE <<>>
      minor == IF Len(core) >= 3 THEN <<core[3]>> ELSE <<>>
  IN CASE shape = "whole" -> Match(w, Undefined, <<>>)
       [] shape = "digits" -> Match(w, core, <<>>)
       [] shape = "word" -> Match(w, w, <<>>)
       [] shape = "named" ->
            Match(w, major, << <<"major", major>>, <<"minor", minor>> >>)
       [] shape = "optional" ->
            Match(w, major, << <<"major", major>>, <<"minor", minor>>,
                               <<"build", Undefined>> >>)

\* the subsequences of a sequence
RECURSIVE SubSeqsOf(_)
SubSeqsOf(s) ==
  IF Len(s) = 0 THEN {<<>>}
  ELSE LET rest == SubSeqsOf(Tail(s))
       IN rest \cup {<<s[1]>> \o r : r \in rest}

\* a regex built around digits only matches words of three or more
\* characters from their first digit on
FitsShape(w, shape) == shape \in {"whole", "word"} \/ Len(Core(w)) >= 3

\* [...subject.matchAll(reg)] for some regex: the matches lie in the
\* subject, in the order of their position
MatchLists(subject) ==
  {[i \in 1..Len(ms[1]) |-> MatchOf(ms[1][i], ms[2])] :
     ms \in {p \in SubSeqsOf(WordsOf(subject)) \X Shapes :
               \A i \in 1..Len(p[1]) : FitsShape(p[1][i], p[2])}}

\* subject.match(reg) without the global flag: null (<<>>) or one match
SingleMatches(subject) == {ms \in MatchLists(subject) : Len(ms) <= 1}

-----------------------------------------------------------------------------
(* Scoop.checkNewVersion, src/core/index.ts *)

\* what a run of _checkNewVersion has come to: a fetch it awaits, a value it
\* returns, or an error it throws; with the regex sources it compiled, the
\* text it ran the regex against and the release entry it selected
Step(type, value, url, ua, regexes, subject, entry) ==
  [type |-> type, value |-> value, url |-> url, ua |-> ua,
   compiled |-> regexes, subject |-> subject, latest |-> entry]

Fetch(url, ua, regexes) ==
  Step("fetch", <<>>, url, ua, regexes, Undefined, NoRelease)
Return(value, regexes, subject, entry) ==
  Step("return", value, <<>>, <<>>, regexes, subject, entry)
Throw(regexes, subject, entry) ==
  Step("throw", <<>>, <<>>, <<>>, regexes, subject, entry)

NotStarted == Step("none", <<>>, <<>>, <<>>, <<>>, Undefined, NoRelease)

\* s.replace(/https?:\/\/(www\.)?github\.com\//, ''): the first occurrence
\* of the pattern is removed, wherever it is
RECURSIVE StripGithubFrom(_, _)
StripGithubFrom(s, i) ==
  IF i > Len(s) THEN s
  ELSE IF /\ s[i] \in {"http://", "https://"}
          /\ i + 1 <= Len(s) /\ s[i + 1] = "github.com/"
       THEN SubSeq(s, 1, i - 1) \o Drop(s, i + 1)
  ELSE IF /\ s[i] \in {"http://", "https://"}
          /\ i + 2 <= Len(s) /\ s[i + 1] = "www." /\ s[i + 2] = "github.com/"
       THEN SubSeq(s, 1, i - 1) \o Drop(s, i + 2)
  ELSE StripGithubFrom(s, i + 1)

StripGithubPrefix(s) == StripGithubFrom(s, 1)

\* `https://api.github.com/repos/${repo}/releases`
ApiUrl(repo) == <<"https://", "api.github.com/repos/">> \o repo \o <<"/releases">>

\* checkver.userAgent || 'Mozilla/5.0'
UserAgentOf(checkver) ==
  IF checkver.userAgent # <<>> THEN checkver.userAgent ELSE UserAgentDefault

\* checkver.regex || checkver.re
RegexOrAlias(checkver) ==
  IF checkver.regex # <<>> THEN checkver.regex ELSE checkver.re

\* releases[0]: the newest entry, prerelease or not
FindLatestFirst(releases) ==
  IF Len(releases) = 0 THEN NoRelease ELSE releases[1]

\* releases.find(release => !release.prerelease)
RECURSIVE FindLatest(_)
FindLatest(releases) ==
  IF Len(releases) = 0 THEN NoRelease
  ELSE IF ~releases[1].prerelease THEN releases[1]
  ELSE FindLatest(Tail(releases))

\* latest?.tag_name ?? ''
TagNameOf(entry) == IF entry = NoRelease THEN <<>> ELSE entry.tag_name

\* the tag name in place of the serialized entry
JsonStringifyTag(entry) == entry.tag_name

\* JSON.stringify(latest)
JsonStringify(entry) ==
  <<"{\"tag_name\":\"">> \o entry.tag_name \o <<"\",\"prerelease\":">>
    \o (IF entry.prerelease THEN <<"true">> ELSE <<"false">>) \o <<"}">>

\* match[0], whatever the groups captured
CaptureOrWholeMatch(match) == match.whole

\* match[1] ?? match[0] ?? ''
CaptureOrWhole(match) ==
  IF match.g1 # Undefined THEN match.g1 ELSE match.whole

\* String(value) of a replacement argument: undefined becomes 'undefined'
ToText(value) == IF value = Undefined THEN <<"undefined">> ELSE value

\* s.replace(new RegExp(`\\$\\{${key}\\}`, 'g'), text); the captured texts
\* of this model hold no '$', so no replacement pattern is in play
RECURSIVE ReplaceKey(_, _, _)
ReplaceKey(s, key, text) ==
  IF Len(s) = 0 THEN <<>>
  ELSE (IF s[1] = Placeholder(key) THEN ToText(text) ELSE <<s[1]>>)
         \o ReplaceKey(Tail(s), key, text)

\* for (const key in match.groups) replaced = replaced.replace(...)
RECURSIVE ReplaceGroups(_, _)
ReplaceGroups(replaced, groups) ==
  IF Len(groups) = 0 THEN replaced
  ELSE ReplaceGroups(ReplaceKey(replaced, groups[1][1], groups[1][2]),
                     Tail(groups))

\* the replace block of the github and url variants
ReplaceTemplate(replace, match) == ReplaceGroups(replace, match.groups)

\* xml.match(/<link>(.*?)<\/link>/): the text between the first <link>
\* and the nearest </link> on the same line
RECURSIVE FirstLinkFrom(_, _)
FirstLinkFrom(xml, i) ==
  IF i > Len(xml) THEN [found |-> FALSE, text |-> <<>>]
  ELSE LET rest  == Drop(xml, i)
           close == IndexOf(rest, {"</link>"})
           line  == IndexOf(rest, {"\n"})
       IN IF xml[i] = "<link>" /\ close # 0 /\ (line = 0 \/ line > close)
          THEN [found |-> TRUE, text |-> SubSeq(rest, 1, close - 1)]
          ELSE FirstLinkFrom(xml, i + 1)

\* /<link>(.*)<\/link>/ on a feed of one line: up to the last </link>
FirstLinkGreedy(xml) ==
  LET open  == IndexOf(xml, {"<link>"})
      close == CHOOSE j \in 0..Len(xml) :
                 /\ (j # 0 => xml[j] = "</link>" /\ j > open)
                 /\ \A k \in (j + 1)..Len(xml) :
                      ~(xml[k] = "</link>" /\ k > open)
  IN IF open = 0 \/ close = 0 THEN [found |-> FALSE, text |-> <<>>]
     ELSE [found |-> TRUE, text |-> SubSeq(xml, open + 1, close - 1)]

FirstLink(xml) == FirstLinkFrom(xml, 1)

\* s.replace(/^v/, '')
StripLeadingV(s) == IF Len(s) > 0 /\ s[1] = "v" THEN Tail(s) ELSE s

\* s.replace(/^\//, '')
StripLeadingSlash(s) == IF Len(s) > 0 /\ s[1] = "/" THEN Tail(s) ELSE s

\* the RSS url of the sourceforge variant
RssUrl(checkver) ==
  <<"https://", "sourceforge.net/projects/">> \o checkver.sourceforge
    \o <<"/rss">>
    \o (IF checkver.sourceforgepath # <<>>
        THEN <<"?path=">> \o StripLeadingSlash(checkver.sourceforgepath)
        ELSE <<>>)

\* the branches with the script test after the source selectors
StrategyScriptLast(checkver) ==
  IF checkver.type = "string"
  THEN (IF checkver.str = <<"github">> THEN "github-string"
        ELSE "regex-string")
  ELSE IF checkver.github # <<>> THEN "github"
  ELSE IF checkver.sourceforge # <<>> THEN "sourceforge"
  ELSE IF checkver.url # <<>> THEN "url"
  ELSE IF checkver.script # <<>> THEN "script"
  ELSE "none"

\* the branch of _checkNewVersion a checkver takes
Strategy(checkver) ==
  IF checkver.type = "string"
  THEN (IF checkver.str = <<"github">> THEN "github-string"
        ELSE "regex-string")
  ELSE IF checkver.script # <<>> THEN "script"
  ELSE IF checkver.github # <<>> THEN "github"
  ELSE IF checkver.sourceforge # <<>> THEN "sourceforge"
  ELSE IF checkver.url # <<>> THEN "url"
  ELSE "none"

\* _checkNewVersion up to its first await
StartCheck(a) ==
  LET checkver == a.checkver
      strategy == Strategy(checkver)
  IN CASE strategy = "github-string" ->
            \* homepage.replace throws on a record without homepage
            IF a.homepage = Undefined THEN Throw(<<>>, Undefined, NoRelease)
            ELSE Fetch(ApiUrl(StripGithubPrefix(a.homepage)),
                       UserAgentDefault, <<>>)
       [] strategy = "regex-string" ->
            IF checkver.str \in Malformed
            THEN Throw(<<checkver.str>>, Undefined, NoRelease)
            ELSE Fetch(a.homepage, UserAgentDefault, <<checkver.str>>)
       [] strategy = "script" -> Return(<<>>, <<>>, Undefined, NoRelease)
       [] strategy = "github" ->
            Fetch(ApiUrl(StripGithubPrefix(checkver.github)),
                  UserAgentOf(checkver), <<>>)
       [] strategy = "sourceforge" ->
            Fetch(RssUrl(checkver), UserAgentDefault, <<>>)
       [] strategy = "url" -> Fetch(checkver.url, UserAgentOf(checkver), <<>>)
       [] OTHER -> Return(<<>>, <<>>, Undefined, NoRelease)


\* a regex is compiled and about to be run against subject
Pending(regexes, subject, entry) ==
  Step("match", <<>>, <<>>, <<>>, regexes, subject, entry)

\* response.json() then releases.find(...): the error either throws, or the
\* selected entry
ReadReleases(body) ==
  IF body.kind # "list" THEN Throw(<<>>, Undefined, NoRelease)
  ELSE Return(<<>>, <<>>, Undefined, FindLatest(body.list))

\* _checkNewVersion from the resolved fetch up to the regex it runs, if any
BeforeRegex(a, body) ==
  LET checkver == a.checkver
      strategy == Strategy(checkver)
      read     == ReadReleases(body)
      link     == FirstLink(body.text)
  IN CASE strategy = "github-string" ->
            IF read.type = "throw" THEN read
            ELSE Return(TagNameOf(read.latest), <<>>, Undefined, read.latest)
       [] strategy = "regex-string" ->
            Pending(<<checkver.str>>, body.text, NoRelease)
       [] strategy = "github" ->
            IF read.type = "throw" THEN read
            ELSE IF checkver.regex # <<>>
            THEN (IF checkver.regex \in Malformed
                  THEN Throw(<<checkver.regex>>, Undefined, read.latest)
                  \* JSON.stringify(undefined) is undefined: matchAll throws
                  ELSE IF read.latest = NoRelease
                  THEN Throw(<<checkver.regex>>, Undefined, read.latest)
                  ELSE Pending(<<checkver.regex>>, JsonStringify(read.latest),
                               read.latest))
            ELSE Return(TagNameOf(read.latest), <<>>, Undefined, read.latest)
       [] strategy = "sourceforge" ->
            IF link.found /\ RegexOrAlias(checkver) # <<>>
            THEN (IF RegexOrAlias(checkver) \in Malformed
                  THEN Throw(<<RegexOrAlias(checkver)>>, Undefined, NoRelease)
                  ELSE Pending(<<RegexOrAlias(checkver)>>, link.text,
                               NoRelease))
            ELSE Return(IF link.found THEN link.text ELSE <<>>, <<>>,
                        Undefined, NoRelease)
       [] strategy = "url" ->
            IF RegexOrAlias(checkver) # <<>>
            THEN (IF RegexOrAlias(checkver) \in Malformed
                  THEN Throw(<<RegexOrAlias(checkver)>>, Undefined, NoRelease)
                  ELSE Pending(<<RegexOrAlias(checkver)>>, body.text,
                               NoRelease))
            ELSE Return(<<>>, <<>>, Undefined, NoRelease)
       [] OTHER -> Return(<<>>, <<>>, Undefined, NoRelease)

\* the first match, whatever checkver.reverse says
ChosenMatchFirst(checkver, ms) == ms[1]

\* the match the url variant works on:
\* checkver.reverse ? matches[matches.length - 1] : matches[0]
ChosenMatch(checkver, ms) == IF checkver.reverse THEN ms[Len(ms)] ELSE ms[1]

\* replace template if declared, else match[1] ?? match[0] ?? ''
ExtractVersion(checkver, match) ==
  IF checkver.replace # <<>> THEN ReplaceTemplate(checkver.replace, match)
  ELSE CaptureOrWhole(match)

\* _checkNewVersion from the list ms the regex engine returned to its end
AfterRegex(a, p, ms) ==
  LET checkver == a.checkver
      strategy == Strategy(checkver)
  IN IF Len(ms) = 0 THEN Return(<<>>, p.compiled, p.subject, p.latest)
     ELSE CASE strategy = "regex-string" ->
                 Return(CaptureOrWhole(ms[1]), p.compiled, p.subject, p.latest)
            [] strategy = "github" ->
                 Return(ExtractVersion(checkver, ms[1]), p.compiled, p.subject,
                        p.latest)
            [] strategy = "sourceforge" ->
                 \* verMatch[1].replace throws when group 1 is undefined
                 IF ms[1].g1 = Undefined
                 THEN Throw(p.compiled, p.subject, p.latest)
                 ELSE Return(StripLeadingV(ms[1].g1), p.compiled, p.subject,
                             p.latest)
            [] OTHER ->
                 Return(ExtractVersion(checkver, ChosenMatch(checkver, ms)),
                        p.compiled, p.subject, p.latest)

\* the lists the regex engine can return for the pending regex: matchAll
\* with the g flag, match without it in the sourceforge variant
RegexResults(a, p) ==
  IF p.type # "match" THEN {<<>>}
  ELSE IF Strategy(a.checkver) = "sourceforge" THEN SingleMatches(p.subject)
  ELSE MatchLists(p.subject)

\* _checkNewVersion from the resolved fetch to its end
FinishCheck(a, body, ms) ==
  LET p == BeforeRegex(a, body)
  IN IF p.type = "match" THEN AfterRegex(a, p, ms) ELSE p

\* format that hands the raw version through
formatRaw(rawVersion) == rawVersion

\* format: clean(rawVersion) || ''
format(rawVersion) ==
  IF clean(rawVersion) = Null THEN <<>> ELSE clean(rawVersion)

\* a settled promise
Resolved(value) == [state |-> "resolved", value |-> value]
Rejected == [state |-> "rejected", value |-> <<>>]

\* checkNewVersion without its try/catch: an error of _checkNewVersion
\* rejects the promise
SettleCheckNoCatch(step) ==
  IF step.type = "throw" THEN Rejected
  ELSE Resolved(format(step.value))

\* try { return format(await _checkNewVersion(app)) } catch { return '' }
SettleCheck(step) ==
  IF step.type = "throw" THEN Resolved(<<>>)
  ELSE Resolved(format(step.value))

\* fetch rejects a url it cannot parse before any network activity
ValidUrl(url) ==
  url # Undefined /\ Len(url) > 1 /\ url[1] \in {"http://", "https://"}

\* the bodies the server behind each strategy's url can deliver
BodiesFor(a) ==
  LET strategy == Strategy(a.checkver)
  IN CASE strategy \in {"github-string", "github"} -> ApiBodies
       [] strategy = "sourceforge" -> RssBodies
       [] OTHER -> PageBodies

-----------------------------------------------------------------------------
(* The installed list, src/scoop-list.tsx *)

\* appVersionInfo: the cache of check results, keyed by appName; it is
\* persisted by useCachedState, so a session starts with what an earlier
\* bulk check left
NoCache == [n \in {} |-> <<>>]
CacheOf(newVersion) ==
  [n \in {"app"} |-> [newVersion |-> newVersion, lastChecked |-> 0]]
Caches ==
  {NoCache} \cup {CacheOf(v) : v \in {<<>>, Version200, <<"1", ".", "2", ".", "3">>}}

\* getAppVersionStatus(app)
getAppVersionStatus(a, cache) ==
  LET cached == a.appName \in DOMAIN cache
      hasUpdate == /\ cached
                   /\ cache[a.appName].newVersion # <<>>
                   /\ cache[a.appName].newVersion # a.version
  IN [hasUpdate |-> hasUpdate,
      currentVersion |-> a.version,
      newVersion |-> IF hasUpdate THEN cache[a.appName].newVersion ELSE <<>>]

NotRendered == [hasUpdate |-> FALSE, currentVersion |-> Undefined,
                newVersion |-> <<>>]

\* the toasts without the test for a failed check
CheckToastNoFailure(a, newVersion) ==
  IF newVersion # a.version THEN "Update Available" ELSE "Up to Date"

\* the toast handleCheckNewVersion shows for newVersion
CheckToast(a, newVersion) ==
  IF newVersion # <<>> /\ newVersion # a.version THEN "Update Available"
  ELSE IF newVersion = <<>> THEN "Check Failed"
  ELSE "Up to Date"

-----------------------------------------------------------------------------
(* Parsed JSON: what JSON.parse hands to the Manifest Reader.  A value is   *)
(* tagged with what `typeof` / Array.isArray tell the code about it: text   *)
(* holds the characters of a string (the digits of a number), items the     *)
(* elements of a list.                                                      *)

JUndefined == [kind |-> "undefined", text |-> <<>>, items |-> <<>>]
JString(text) == [kind |-> "string", text |-> text, items |-> <<>>]
JNumber(digits) == [kind |-> "number", text |-> digits, items |-> <<>>]
JArray(items) == [kind |-> "array", text |-> <<>>, items |-> items]

\* the truthiness the code's `if (x)` and `x || y` test
Truthy(v) ==
  CASE v.kind = "undefined" -> FALSE
    [] v.kind = "string" -> v.text # <<>>
    [] v.kind = "number" -> v.text # <<"0">>
    [] OTHER -> TRUE

\* Array.prototype.flat(Infinity)
RECURSIVE FlatInfinity(_)
FlatInfinity(items) ==
  IF items = <<>> THEN <<>>
  ELSE LET head == Head(items)
       IN (IF head.kind = "array" THEN FlatInfinity(head.items) ELSE <<head>>)
            \o FlatInfinity(Tail(items))

\* getFirstFlatItem(item), logic (src/unnamed/part_000)
getFirstFlatItem(item) ==
  IF item.kind # "array" THEN item
  ELSE LET flattened == FlatInfinity(item.items)
       IN IF Len(flattened) > 0 THEN flattened[1] ELSE JUndefined

\* one block of the manifest's architecture object: architecture[key];
\* present is FALSE when the object has no such key
ArchBlock(shortcuts, bin) ==
  [present |-> TRUE, shortcuts |-> shortcuts, bin |-> bin]
NoArchBlock == [present |-> FALSE, shortcuts |-> JUndefined, bin |-> JUndefined]

\* manifestContent.architecture: declared or not, and its blocks by key
Architecture(b64, b32, barm) ==
  [declared |-> TRUE, b64 |-> b64, b32 |-> b32, barm |-> barm]
NoArchitecture ==
  [declared |-> FALSE, b64 |-> NoArchBlock, b32 |-> NoArchBlock,
   barm |-> NoArchBlock]

\* manifestContent.architecture[key]
ArchConfig(architecture, key) ==
  CASE key = "64bit" -> architecture.b64
    [] key = "32bit" -> architecture.b32
    [] key = "arm64" -> architecture.barm
    [] OTHER -> NoArchBlock

\* how a call ends: it returns a string, null, a record, a list of records
\* or nothing, or it throws an error with a message
Outcome(state, type, text, records) ==
  [state |-> state, type |-> type, text |-> text, records |-> records]
ReturnedText(text) == Outcome("returned", "string", text, <<>>)
ReturnedNull == Outcome("returned", "null", <<>>, <<>>)
ReturnedRecord(record) == Outcome("returned", "record", <<>>, <<record>>)
ReturnedList(records) == Outcome("returned", "list", <<>>, records)
ReturnedVoid == Outcome("returned", "void", <<>>, <<>>)
Thrown(message) == Outcome("thrown", "error", message, <<>>)
NoOutcome == Outcome("pending", "none", <<>>, <<>>)

\* reading a property of undefined, calling .flat on a value that has none
TypeError == <<"TypeError">>

\* process.arch
ProcessArchs == {"x64", "ia32", "arm64", "arm"}

\* processArch: the key of the manifest's architecture block
ArchKey(processArch) ==
  CASE processArch = "x64" -> "64bit"
    [] processArch = "ia32" -> "32bit"
    [] processArch = "arm64" -> "arm64"
    [] OTHER -> "unknown"

\* one step of the locator: `if (decl) { first = getFirstFlatItem(decl);
\* if (typeof first === 'string') return first }`; undefined when the step
\* falls through
LocatorStep(decl) ==
  IF Truthy(decl)
  THEN LET first == getFirstFlatItem(decl)
       IN IF first.kind = "string" THEN first ELSE JUndefined
  ELSE JUndefined

\* Scoop.getAppExeFromManifest(manifestContent), src/core/index.ts 79-124
getAppExeFromManifest(manifestContent, processArch) ==
  LET shortcuts == LocatorStep(manifestContent.shortcuts)
      bin == LocatorStep(manifestContent.bin)
      archConfig == ArchConfig(manifestContent.architecture, ArchKey(processArch))
  IN IF shortcuts.kind = "string" THEN ReturnedText(shortcuts.text)
     ELSE IF bin.kind = "string" THEN ReturnedText(bin.text)
     ELSE IF ~manifestContent.architecture.declared THEN ReturnedText(<<>>)
     ELSE IF ~archConfig.present THEN ReturnedText(<<>>)
     ELSE LET archShortcuts == LocatorStep(archConfig.shortcuts)
              archBin == LocatorStep(archConfig.bin)
          IN IF archShortcuts.kind = "string"
             THEN ReturnedText(archShortcuts.text)
             ELSE IF archBin.kind = "string" THEN ReturnedText(archBin.text)
             ELSE ReturnedText(<<>>)

\* one step of the earlier locator: `if (decl) { if (typeof decl ===
\* 'string') return decl; first = decl.flat(Infinity)[0]; if (typeof first
\* === 'string') return first }`.  It returns the string, or undefined when
\* the step falls through, and throws when decl is truthy and neither a
\* string nor a list.
EarlierStep(decl) ==
  IF ~Truthy(decl) THEN ReturnedRecord(JUndefined)
  ELSE IF decl.kind = "string" THEN ReturnedRecord(decl)
  ELSE IF decl.kind # "array" THEN Thrown(TypeError)
  ELSE LET flattened == FlatInfinity(decl.items)
           first == IF Len(flattened) > 0 THEN flattened[1] ELSE JUndefined
       IN ReturnedRecord(IF first.kind = "string" THEN first ELSE JUndefined)

\* the steps of the earlier locator in order: the first that throws or
\* yields a string ends the call
RECURSIVE EarlierSteps(_)
EarlierSteps(decls) ==
  IF decls = <<>> THEN ReturnedRecord(JUndefined)
  ELSE LET step == EarlierStep(Head(decls))
       IN IF step.state = "thrown" \/ step.records[1].kind = "string" THEN step
          ELSE EarlierSteps(Tail(decls))

\* Scoop.getAppExeFromManifest(manifestContent), the earlier variant,
\* src/core/index.ts 400-453: it reads architecture[arch].shortcuts with no
\* test that architecture[arch] exists
getAppExeFromManifestEarlier(manifestContent, processArch) ==
  LET top == EarlierSteps(<<manifestContent.shortcuts, manifestContent.bin>>)
      archConfig == ArchConfig(manifestContent.architecture, ArchKey(processArch))
      inArch == EarlierSteps(<<archConfig.shortcuts, archConfig.bin>>)
  IN IF top.state = "thrown" THEN top
     ELSE IF top.records[1].kind = "string" THEN ReturnedText(top.records[1].text)
     ELSE IF ~manifestContent.architecture.declared THEN ReturnedText(<<>>)
     ELSE IF ~archConfig.present THEN Thrown(TypeError)
     ELSE IF inArch.state = "thrown" THEN inArch
     ELSE IF inArch.records[1].kind = "string"
          THEN ReturnedText(inArch.records[1].text)
     ELSE ReturnedText(<<>>)

\* which generation of the source a call runs: both are in the repository
Variants == {"current", "earlier"}

\* getAppExeFromManifest of the given generation
Locate(variant, manifestContent, processArch) ==
  IF variant = "earlier"
  THEN getAppExeFromManifestEarlier(manifestContent, processArch)
  ELSE getAppExeFromManifest(manifestContent, processArch)

-----------------------------------------------------------------------------
(* The disk: the install root and the descriptor files under it *)

\* executable paths, as manifests declare them
ExeA == <<"a", ".", "e", "x", "e">>
ExeB == <<"b", ".", "e", "x", "e">>
ExeC == <<"c", ".", "e", "x", "e">>
ExeS == <<"s", ".", "e", "x", "e">>
\* the display name that follows the path in a shortcuts entry
ShortcutLabel == <<"A", "p", "p">>

\* value wrapped in depth lists: [[...[value]...]]
RECURSIVE Nest(_, _)
Nest(value, depth) ==
  IF depth = 0 THEN value ELSE JArray(<<Nest(value, depth - 1)>>)

\* the shapes a shortcuts or bin declaration of path takes: absent, a bare
\* string, [path, label] nested to some depth, a list whose first element is
\* not a string, an empty list, a list that starts with an empty list
Declarations(path) ==
  {JUndefined, JString(path)}
    \cup {Nest(JArray(<<JString(path), JString(ShortcutLabel)>>), d) :
            d \in 0..(MaxDepth - 1)}
    \cup {JArray(<<JNumber(<<"1">>), JString(path)>>),
          JArray(<<>>),
          JArray(<<JArray(<<>>), JString(path)>>)}

\* architecture blocks and architecture objects
ArchBlocks ==
  {ArchBlock(s, b) : s \in {JUndefined, JString(ExeS), Nest(JString(ExeS), 2)},
                     b \in {JUndefined, JString(ExeC)}}
Architectures ==
  {NoArchitecture, Architecture(NoArchBlock, NoArchBlock, NoArchBlock)}
    \cup {Architecture(block, NoArchBlock, NoArchBlock) : block \in ArchBlocks}
    \cup {Architecture(NoArchBlock, block, block) : block \in ArchBlocks}

\* manifestContent.checkver: declared or not
ManifestCheckver(config) == [declared |-> TRUE, config |-> config]
NoManifestCheckver == [declared |-> FALSE, config |-> DefaultCheckver]

\* the parsed manifest.json
Manifest(version, description, homepage, checkver, shortcuts, bin, architecture) ==
  [version |-> version, description |-> description, homepage |-> homepage,
   checkver |-> checkver, shortcuts |-> shortcuts, bin |-> bin,
   architecture |-> architecture]

\* manifests that differ in what the Executable Locator reads
LocatorManifests ==
  {Manifest(JString(Version200), JUndefined, JUndefined, NoManifestCheckver,
            s, b, a) :
     s \in Declarations(ExeA), b \in Declarations(ExeB), a \in Architectures}

DescriptionText == <<"A tool">>
DescriptionMore == <<"More about it">>
\* the shapes of manifestContent.description
Descriptions ==
  {JUndefined, JString(DescriptionText), JString(<<>>),
   JArray(<<JString(DescriptionText), JString(DescriptionMore)>>)}

\* manifests that differ in what the Manifest Reader normalizes
ReaderManifests ==
  {Manifest(JString(Version200), d, h, c, s, JUndefined, a) :
     d \in Descriptions,
     h \in {JUndefined, JString(HomeOther)},
     c \in {NoManifestCheckver, ManifestCheckver(StringCheckver(<<"github">>))},
     s \in {JUndefined, JArray(<<JArray(<<JString(ExeA), JString(ShortcutLabel)>>)>>)},
     a \in {NoArchitecture,
            Architecture(ArchBlock(JUndefined, JString(ExeC)), NoArchBlock,
                         NoArchBlock)}}

\* a descriptor file: missing, unreadable, not JSON, or JSON with content
ManifestFile(state, content) == [state |-> state, content |-> content]
InstallFile(state, bucket) == [state |-> state, bucket |-> bucket]
FileFailures == {"missing", "unreadable", "corrupt"}
PlainManifest ==
  Manifest(JString(Version200), JString(DescriptionText), JUndefined,
           NoManifestCheckver, JString(ExeA), JUndefined, NoArchitecture)
ManifestFiles ==
  {ManifestFile(f, PlainManifest) : f \in FileFailures}
    \cup {ManifestFile("json", m) : m \in ReaderManifests}
InstallFiles ==
  {InstallFile(f, JUndefined) : f \in FileFailures}
    \cup {InstallFile("json", b) : b \in {JUndefined, JString(BucketMain)}}

\* {root}/apps/{name}/current: its two descriptor files
AppDir(manifest, install) == [manifest |-> manifest, install |-> install]
AppDirs == {AppDir(m, i) : m \in ManifestFiles, i \in InstallFiles}

\* the subdirectories enumeration is tried on: two that resolve (the second
\* declares its executable for 64-bit only), and three that do not
ArchOnlyManifest ==
  Manifest(JString(Version200), JUndefined, JString(HomeOther),
           NoManifestCheckver, JUndefined, JUndefined,
           Architecture(ArchBlock(JUndefined, JString(ExeC)), NoArchBlock,
                        NoArchBlock))
ListedDirs ==
  {AppDir(ManifestFile("json", PlainManifest), InstallFile("json", JString(BucketMain))),
   AppDir(ManifestFile("json", ArchOnlyManifest), InstallFile("json", JUndefined)),
   AppDir(ManifestFile("corrupt", PlainManifest), InstallFile("json", JString(BucketMain))),
   AppDir(ManifestFile("missing", PlainManifest), InstallFile("missing", JUndefined)),
   AppDir(ManifestFile("json", PlainManifest), InstallFile("unreadable", JUndefined))}

\* the names of the subdirectories of apps, in the order readdir lists them
AppNames == <<"git", "7zip", "curl", "vim", "jq">>

\* the scoopRoot preference and what is on disk there
Root(preference, exists, hasApps, listable) ==
  [preference |-> preference, exists |-> exists, hasApps |-> hasApps,
   listable |-> listable]
RootPath == <<"C:/scoop">>
Roots ==
  {Root(<<>>, FALSE, FALSE, FALSE),
   Root(<<" ", " ">>, FALSE, FALSE, FALSE),
   Root(RootPath, FALSE, FALSE, FALSE),
   Root(RootPath, TRUE, FALSE, FALSE),
   Root(RootPath, TRUE, TRUE, FALSE),
   Root(RootPath, TRUE, TRUE, TRUE)}

\* constructor: this.scoopRoot = settings.scoopRoot.trim() || ''
ScoopRoot(root) == Trim(root.preference)

\* isValidScoopRoot(): scoopRoot is set and both access() calls succeed
isValidScoopRoot(root) ==
  /\ ScoopRoot(root) # <<>>
  /\ root.exists
  /\ root.hasApps

\* join of node:path/posix: the non-empty segments with '/' between them
RECURSIVE join(_)
join(segments) ==
  IF segments = <<>> THEN <<>>
  ELSE LET rest == join(Tail(segments))
       IN IF Head(segments) = <<>> THEN rest
          ELSE IF rest = <<>> THEN Head(segments)
          ELSE Head(segments) \o <<"/">> \o rest

\* appDirPath of getAppInfo
AppDirPath(root, appName) ==
  join(<<join(<<ScoopRoot(root), <<"apps">>>>), <<appName>>, <<"current">>>>)

-----------------------------------------------------------------------------
(* The Manifest Reader and the registry, src/core/index.ts *)

\* a side effect of a call: an fs access, a child process, a settling of a
\* promise
Effect(op, path) == [op |-> op, path |-> path]

\* JSON.parse(await readFile(path, 'utf-8')) returns
Parses(file) == file.state = "json"

\* description of getAppInfo: description[0] of a list, else the value
DescriptionOf(manifestContent) ==
  IF manifestContent.description.kind = "array"
  THEN IF Len(manifestContent.description.items) > 0
       THEN manifestContent.description.items[1]
       ELSE JUndefined
  ELSE manifestContent.description

\* x || fallback for a string field
OrDefault(value, fallback) ==
  IF Truthy(value) THEN value ELSE JString(fallback)

\* the record getAppInfo returns
AppRecord(appName, dirPath, manifestContent, installContent, exeName) ==
  [appName |-> appName,
   dirPath |-> dirPath,
   version |-> manifestContent.version,
   description |-> DescriptionOf(manifestContent),
   exeName |-> exeName,
   homepage |-> OrDefault(manifestContent.homepage, <<>>),
   checkver |-> IF manifestContent.checkver.declared
                THEN manifestContent.checkver.config
                ELSE DefaultCheckver,
   bucket |-> OrDefault(installContent.bucket, BucketUnknown)]

\* the files getAppInfo reads, in order: install.json only after
\* manifest.json parsed
ReadsOf(dirPath, dir) ==
  <<Effect("readFile", join(<<dirPath, <<"manifest.json">>>>))>>
    \o (IF Parses(dir.manifest)
        THEN <<Effect("readFile", join(<<dirPath, <<"install.json">>>>))>>
        ELSE <<>>)

\* getAppInfo without its try/catch
getAppInfoNoCatch(root, appName, dir, processArch) ==
  LET exe == getAppExeFromManifest(dir.manifest.content, processArch)
  IN IF ~Parses(dir.manifest) THEN Thrown(<<"ENOENT or SyntaxError">>)
     ELSE IF ~Parses(dir.install) THEN Thrown(<<"ENOENT or SyntaxError">>)
     ELSE IF exe.state = "thrown" THEN exe
     ELSE ReturnedRecord(AppRecord(appName, AppDirPath(root, appName),
                                   dir.manifest.content, dir.install, exe.text))

\* Scoop.getAppInfo(appName), src/core/index.ts 256-289
getAppInfo(root, appName, dir, processArch) ==
  LET exe == getAppExeFromManifest(dir.manifest.content, processArch)
  IN IF ~Parses(dir.manifest) THEN ReturnedNull
     ELSE IF ~Parses(dir.install) THEN ReturnedNull
     ELSE IF exe.state = "thrown" THEN ReturnedNull
     ELSE ReturnedRecord(AppRecord(appName, AppDirPath(root, appName),
                                   dir.manifest.content, dir.install, exe.text))

\* the record the loop of the earlier getScoopList pushes
EarlierRecord(appName, dirPath, manifestContent, installContent, exeName) ==
  [name |-> appName,
   dirPath |-> dirPath,
   version |-> manifestContent.version,
   description |-> DescriptionOf(manifestContent),
   exePath |-> dirPath \o <<"/">> \o exeName,
   homepage |-> OrDefault(manifestContent.homepage, <<>>),
   checkver |-> IF manifestContent.checkver.declared
                THEN manifestContent.checkver.config
                ELSE DefaultCheckver,
   bucket |-> OrDefault(installContent.bucket, BucketUnknown)]

\* appDirPath of the earlier getScoopList: `${scoopRoot}/apps/${name}/current`
EarlierDirPath(root, appName) ==
  ScoopRoot(root) \o <<"/", "apps", "/", appName, "/", "current">>

\* one turn of the loop of the earlier getScoopList, src/core/index.ts
\* 506-540: an error thrown anywhere in the turn, the locator included, is
\* caught and nothing is pushed
ResolveEarlier(root, appName, dir, processArch) ==
  LET exe == getAppExeFromManifestEarlier(dir.manifest.content, processArch)
  IN IF ~Parses(dir.manifest) THEN ReturnedNull
     ELSE IF ~Parses(dir.install) THEN ReturnedNull
     ELSE IF exe.state = "thrown" THEN ReturnedNull
     ELSE ReturnedRecord(EarlierRecord(appName, EarlierDirPath(root, appName),
                                       dir.manifest.content, dir.install,
                                       exe.text))

\* what resolving one subdirectory gives in the given generation
Resolve(variant, root, appName, dir, processArch) ==
  IF variant = "earlier" THEN ResolveEarlier(root, appName, dir, processArch)
  ELSE getAppInfo(root, appName, dir, processArch)

\* the directory Resolve reads in
ResolvedDirPath(variant, root, appName) ==
  IF variant = "earlier" THEN EarlierDirPath(root, appName)
  ELSE AppDirPath(root, appName)

\* appList.filter(Boolean): the records of the results that are not null
RECURSIVE FilterBoolean(_)
FilterBoolean(outcomes) ==
  IF outcomes = <<>> THEN <<>>
  ELSE (IF Head(outcomes).type = "record" THEN Head(outcomes).records ELSE <<>>)
         \o FilterBoolean(Tail(outcomes))

\* the error messages of getScoopList
RootInvalid == <<"Scoop root is invalid or not set.">>
ReadDirFailed == <<"Failed to read Scoop apps directory.">>
NoAppsFound == <<"No Scoop apps found.">>

-----------------------------------------------------------------------------
(* The external command runner, src/logic/index.ts and src/unnamed/part_000 *)

\* commands handed to execPromise
ExplorerSelect == <<"explorer /select", ",", "\"C:\\scoop\\apps\\git\\current\\a.exe\"">>
StartDir == <<"start \"\" ", "\"C:\\scoop\\apps\\git\\current\"">>
StartExe == <<"start \"\" ", "\"C:\\scoop\\apps\\git\\current\\a.exe\"">>
ScoopUpdateGit == <<"scoop ", "update", " ", "main", "/", "git">>
ScoopUninstallGit == <<"scoop ", "uninstall", " ", "main", "/", "git">>
ScoopResetGit == <<"scoop ", "reset", " ", "unknown", "/", "git">>

\* exit codes of the child process
ExitCodes == {0, 1, 2}

\* command.startsWith('explorer /select')
StartsWithExplorerSelect(command) ==
  Len(command) > 0 /\ command[1] = "explorer /select"

\* the callback without the test for explorer /select
SettleCallsNoException(command, exitCode) ==
  IF exitCode # 0 THEN <<"reject">> ELSE <<"resolve">>

\* the calls the exec callback of the earlier execPromise makes to settle its
\* promise, in order (src/logic/index.ts 9-17): resolve() for explorer
\* /select and code 1, then reject(error) when error is set, else resolve()
SettleCallsEarlier(command, exitCode) ==
  (IF StartsWithExplorerSelect(command) /\ exitCode = 1
   THEN <<"resolve">> ELSE <<>>)
    \o (IF exitCode # 0 THEN <<"reject">> ELSE <<"resolve">>)

\* promisify(exec): rejects with the error of a non-zero exit, else resolves
SettleCallsPromisify(command, exitCode) ==
  IF exitCode # 0 THEN <<"reject">> ELSE <<"resolve">>

\* the settle calls of execPromise in the given generation
SettleCalls(variant, command, exitCode) ==
  IF variant = "earlier" THEN SettleCallsEarlier(command, exitCode)
  ELSE SettleCallsPromisify(command, exitCode)

\* the message of the error exec reports for a failed command
CommandFailed(command) == <<"Command failed: ">> \o command

\* a promise keeps its first settlement; later calls do nothing
Settlement(settleCalls, command) ==
  IF settleCalls[1] = "resolve" THEN ReturnedVoid
  ELSE Thrown(CommandFailed(command))

\* how `await execPromise(command)` ends
execPromise(variant, command, exitCode) ==
  Settlement(SettleCalls(variant, command, exitCode), command)

\* the message prefixes of lines 296, 305 and 314 (Chinese in the source:
\* "cannot update app ", "cannot uninstall app ", "cannot reset app ")
FailurePrefix(subcommand) ==
  CASE subcommand = "update" -> "cannot update app "
    [] subcommand = "uninstall" -> "cannot uninstall app "
    [] OTHER -> "cannot reset app "

\* `scoop ${subcommand} ${app.bucket}/${app.appName}`
LifecycleCommand(subcommand, a) ==
  <<"scoop ", subcommand, " ">> \o a.bucket \o <<"/", a.appName>>

\* the lifecycle method swallowing the failure of its command
LifecycleOutcomeSwallow(subcommand, a, executed) ==
  ReturnedVoid

\* updateNewVersion / uninstallApp / resetApp after the await: the catch
\* rethrows with appName and error.message
LifecycleOutcome(subcommand, a, executed) ==
  IF executed.state = "thrown"
  THEN Thrown(<<FailurePrefix(subcommand), a.appName, ": ">> \o executed.text)
  ELSE ReturnedVoid

-----------------------------------------------------------------------------
(* Calls into the core *)

\* a call of a core function: which function, of which generation, and the
\* inputs it reads (the process architecture, the root and the directories
\* on disk, the manifest, the command and the exit code of its process)
Call(fn, variant, processArch, root, appName, dirs, manifest, command, exitCode) ==
  [fn |-> fn, variant |-> variant, processArch |-> processArch, root |-> root,
   appName |-> appName, dirs |-> dirs, manifest |-> manifest,
   command |-> command, exitCode |-> exitCode]

ValidRoot == Root(RootPath, TRUE, TRUE, TRUE)
\* a root whose apps cannot be listed (readdir rejects)
UnlistableRoot == Root(RootPath, TRUE, TRUE, FALSE)
\* the descriptors of a directory that is not there
MissingDir ==
  AppDir(ManifestFile("missing", PlainManifest), InstallFile("missing", JUndefined))

\* no core function has been called
NoCall ==
  Call("none", "current", "x64", ValidRoot, "git", <<>>, PlainManifest, <<>>, 0)

LocatorCalls ==
  {Call("getAppExeFromManifest", v, a, ValidRoot, "git", <<>>, m, <<>>, 0) :
     v \in Variants, a \in ProcessArchs, m \in LocatorManifests}

\* Nothing can be read under a root that is unset (the path is then
\* relative to the working directory of the extension), that does not exist
\* or that has no apps: the descriptors are missing there.

ReaderCalls ==
  {Call("getAppInfo", "current", a, r, n, <<d>>, PlainManifest, <<>>, 0) :
     a \in {"x64", "arm"}, r \in {ValidRoot}, n \in {"git", "7zip"},
     d \in AppDirs}
    \cup {Call("getAppInfo", "current", "x64", r, "git", <<d>>, PlainManifest, <<>>, 0) :
             r \in Roots \ {ValidRoot}, d \in {MissingDir}}
    \cup {Call("getAppInfo", "current", "x64", r, "git", <<d>>, PlainManifest, <<>>, 0) :
             r \in {UnlistableRoot}, d \in AppDirs}

ListCalls ==
  {Call("getScoopList", v, a, r, "git", dirs, PlainManifest, <<>>, 0) :
     v \in Variants, a \in {"x64", "arm64"}, r \in {ValidRoot},
     dirs \in SeqsUpTo(ListedDirs, MaxDirs)}
    \cup {Call("getScoopList", v, "x64", r, "git", <<>>, PlainManifest, <<>>, 0) :
             v \in Variants, r \in Roots \ {ValidRoot}}

\* the commands each generation hands to its execPromise: the earlier one
\* starts apps and reveals them in Explorer (startApp, openAppInExplorer),
\* the current one runs the package manager (the list reveals a file with
\* Action.ShowInFinder, src/scoop-list.tsx 672-676)
CommandsOf(variant) ==
  IF variant = "earlier" THEN {ExplorerSelect, StartDir, StartExe}
  ELSE {ScoopUpdateGit, ScoopUninstallGit, ScoopResetGit}

ExecCalls ==
  {Call("execPromise", v, "x64", ValidRoot, "git", <<>>, PlainManifest, c, e) :
     v \in {"earlier"}, c \in CommandsOf("earlier"), e \in ExitCodes}
    \cup {Call("execPromise", v, "x64", ValidRoot, "git", <<>>, PlainManifest, c, e) :
             v \in {"current"}, c \in CommandsOf("current"), e \in ExitCodes}

-----------------------------------------------------------------------------
(* The state machine *)

Init ==
  /\ app \in Apps
  /\ appVersionInfo \in Caches
  /\ pc = "idle"
  /\ requests = <<>>
  /\ response = NoResponse
  /\ compiled = <<>>
  /\ reSubject = Undefined
  /\ matches = <<>>
  /\ latest = NoRelease
  /\ raw = NotStarted
  /\ settled = "pending"
  /\ result = <<>>
  /\ toast = "none"
  /\ versionStatus = NotRendered
  /\ call = NoCall
  /\ cpc = "ready"
  /\ effects = <<>>
  /\ outcome = NoOutcome
  /\ results = <<>>
  /\ ViewClosed

\* what the end of _checkNewVersion leaves behind
Settle(step) ==
  /\ raw' = step
  /\ compiled' = step.compiled
  /\ reSubject' = step.subject
  /\ latest' = step.latest
  /\ settled' = SettleCheck(step).state
  /\ result' = SettleCheck(step).value
  /\ pc' = "settled"

\* handleCheckNewVersion up to `await scoop.checkNewVersion(app)`, and
\* checkNewVersion up to its first await
HandleCheckNewVersion ==
  /\ pc = "idle"
  /\ toast' = "Checking for Updates"
  /\ LET step == StartCheck(app)
     IN IF step.type = "fetch"
        THEN /\ requests' = Append(requests, [url |-> step.url, ua |-> step.ua])
             /\ compiled' = step.compiled
             /\ pc' = "fetching"
             /\ UNCHANGED <<raw, reSubject, latest, settled, result>>
        ELSE /\ Settle(step)
             /\ UNCHANGED requests
  /\ UNCHANGED <<app, appVersionInfo, response, matches, versionStatus>>
  /\ UNCHANGED coreVars
  /\ UNCHANGED uiVars

\* the awaited fetch (or the read of its body) rejects
FetchRejects ==
  /\ pc = "fetching"
  /\ response' = Body("rejected", <<>>, <<>>)
  /\ Settle(Throw(compiled, Undefined, NoRelease))
  /\ UNCHANGED <<app, appVersionInfo, requests, matches, toast, versionStatus>>
  /\ UNCHANGED coreVars
  /\ UNCHANGED uiVars

\* the awaited fetch resolves and its body is read; _checkNewVersion runs
\* to its end
FetchResolves ==
  /\ pc = "fetching"
  /\ ValidUrl(requests[Len(requests)].url)
  /\ \E body \in BodiesFor(app) :
       \E ms \in RegexResults(app, BeforeRegex(app, body)) :
         /\ response' = body
         /\ matches' = ms
         /\ Settle(FinishCheck(app, body, ms))
  /\ UNCHANGED <<app, appVersionInfo, requests, toast, versionStatus>>
  /\ UNCHANGED coreVars
  /\ UNCHANGED uiVars

\* handleCheckNewVersion after the await: one of three toasts
ReportCheck ==
  /\ pc = "settled"
  /\ settled = "resolved"
  /\ toast' = CheckToast(app, result)
  /\ pc' = "reported"
  /\ UNCHANGED <<app, appVersionInfo, requests, response, compiled, reSubject,
                 matches, latest, raw, settled, result, versionStatus>>
  /\ UNCHANGED coreVars
  /\ UNCHANGED uiVars

\* a render of the list item calls getAppVersionStatus(app)
Render ==
  /\ versionStatus = NotRendered
  /\ versionStatus' = getAppVersionStatus(app, appVersionInfo)
  /\ UNCHANGED <<app, appVersionInfo, pc, requests, response, compiled,
                 reSubject, matches, latest, raw, settled, result, toast>>
  /\ UNCHANGED coreVars
  /\ UNCHANGED uiVars

-----------------------------------------------------------------------------
(* The lifecycle methods of the core, called on app *)

\* updateNewVersion / uninstallApp / resetApp up to `await execPromise(...)`
RunLifecycle(fn, subcommand) ==
  /\ pc = "idle"
  /\ cpc = "ready"
  /\ call' = [call EXCEPT !.fn = fn, !.command = LifecycleCommand(subcommand, app)]
  /\ effects' = Append(effects, Effect("exec", LifecycleCommand(subcommand, app)))
  /\ cpc' = "running"
  /\ pc' = "lifecycle"
  /\ UNCHANGED <<outcome, results>>
  /\ UNCHANGED <<app, appVersionInfo, requests, response, compiled, reSubject,
                 matches, latest, raw, settled, result, toast, versionStatus>>
  /\ UNCHANGED uiVars

UpdateNewVersion == RunLifecycle("updateNewVersion", "update")
UninstallApp == RunLifecycle("uninstallApp", "uninstall")
ResetApp == RunLifecycle("resetApp", "reset")

\* the subcommand a lifecycle method runs
SubcommandOf(fn) ==
  CASE fn = "updateNewVersion" -> "update"
    [] fn = "uninstallApp" -> "uninstall"
    [] OTHER -> "reset"

\* the lifecycle method running its command again after a failure
CommandExitsRetry ==
  /\ pc = "lifecycle"
  /\ cpc = "running"
  /\ \E exitCode \in ExitCodes :
       IF exitCode # 0 /\ Len(effects) < 2
       THEN /\ effects' = Append(effects, Effect("exec", call.command))
            /\ UNCHANGED <<call, cpc, outcome>>
       ELSE /\ call' = [call EXCEPT !.exitCode = exitCode]
            /\ outcome' = LifecycleOutcome(SubcommandOf(call.fn), app,
                                           execPromise(call.variant, call.command, exitCode))
            /\ cpc' = "done"
            /\ UNCHANGED effects
  /\ UNCHANGED results
  /\ UNCHANGED checkVars
  /\ UNCHANGED uiVars

\* the command exits; the awaiting lifecycle method returns or throws
CommandExits ==
  /\ pc = "lifecycle"
  /\ cpc = "running"
  /\ \E exitCode \in ExitCodes :
       /\ call' = [call EXCEPT !.exitCode = exitCode]
       /\ outcome' = LifecycleOutcome(SubcommandOf(call.fn), app,
                                      execPromise(call.variant, call.command, exitCode))
  /\ cpc' = "done"
  /\ UNCHANGED <<effects, results>>
  /\ UNCHANGED checkVars
  /\ UNCHANGED uiVars

Next ==
  \/ HandleCheckNewVersion
  \/ FetchRejects
  \/ FetchResolves
  \/ ReportCheck
  \/ Render
  \/ UpdateNewVersion
  \/ UninstallApp
  \/ ResetApp
  \/ CommandExits

Spec == Init /\ [][Next]_vars

-----------------------------------------------------------------------------
(* The core called on a disk: the locator, the reader, the enumeration and   *)
(* the command runner, each call from its inputs                            *)

\* the app the installed list holds while the core is exercised
ListedApp == AppInfo(Version200, HomeOther, DefaultCheckver, BucketMain)

InitCore ==
  /\ app = ListedApp
  /\ appVersionInfo = NoCache
  /\ pc = "idle"
  /\ requests = <<>>
  /\ response = NoResponse
  /\ compiled = <<>>
  /\ reSubject = Undefined
  /\ matches = <<>>
  /\ latest = NoRelease
  /\ raw = NotStarted
  /\ settled = "pending"
  /\ result = <<>>
  /\ toast = "none"
  /\ versionStatus = NotRendered
  /\ \/ call \in LocatorCalls
     \/ call \in ReaderCalls
     \/ call \in ListCalls
     \/ call \in ExecCalls
  /\ cpc = "ready"
  /\ effects = <<>>
  /\ outcome = NoOutcome
  /\ results = <<>>
  /\ ViewClosed

\* getAppExeFromManifest(manifestContent)
GetAppExeFromManifest ==
  /\ call.fn = "getAppExeFromManifest"
  /\ cpc = "ready"
  /\ outcome' = Locate(call.variant, call.manifest, call.processArch)
  /\ cpc' = "done"
  /\ UNCHANGED <<call, effects, results>>
  /\ UNCHANGED checkVars
  /\ UNCHANGED uiVars

\* getAppInfo(appName)
GetAppInfo ==
  /\ call.fn = "getAppInfo"
  /\ cpc = "ready"
  /\ effects' = effects \o ReadsOf(AppDirPath(call.root, call.appName),
                                   call.dirs[1])
  /\ outcome' = getAppInfo(call.root, call.appName, call.dirs[1], call.processArch)
  /\ cpc' = "done"
  /\ UNCHANGED <<call, results>>
  /\ UNCHANGED checkVars
  /\ UNCHANGED uiVars

\* the access() calls isValidScoopRoot makes: none for scoopRoot '', the
\* second only after the first succeeded
AccessesOf(root) ==
  IF ScoopRoot(root) = <<>> THEN <<>>
  ELSE <<Effect("access", ScoopRoot(root))>>
         \o (IF root.exists
             THEN <<Effect("access", ScoopRoot(root) \o <<"/", "apps">>)>>
             ELSE <<>>)

\* getScoopList up to the end of `await this.isValidScoopRoot()`
GetScoopList ==
  /\ call.fn = "getScoopList"
  /\ cpc = "ready"
  /\ effects' = effects \o AccessesOf(call.root)
  /\ IF isValidScoopRoot(call.root)
     THEN /\ cpc' = "listing"
          /\ UNCHANGED outcome
     ELSE /\ cpc' = "done"
          /\ outcome' = Thrown(RootInvalid)
  /\ UNCHANGED <<call, results>>
  /\ UNCHANGED checkVars
  /\ UNCHANGED uiVars

\* getAllDirs(scoopAppsPath) and the test for an empty list
ListAppDirs ==
  /\ call.fn = "getScoopList"
  /\ cpc = "listing"
  /\ effects' = Append(effects, Effect("readdir", join(<<ScoopRoot(call.root), <<"apps">>>>)))
  /\ IF ~call.root.listable
     THEN /\ cpc' = "done"
          /\ outcome' = Thrown(ReadDirFailed)
          /\ UNCHANGED results
     ELSE IF Len(call.dirs) = 0
     THEN /\ cpc' = "done"
          /\ outcome' = Thrown(NoAppsFound)
          /\ UNCHANGED results
     ELSE /\ cpc' = "resolving"
          /\ results' = [i \in 1..Len(call.dirs) |-> NoOutcome]
          /\ UNCHANGED outcome
  /\ UNCHANGED call
  /\ UNCHANGED checkVars
  /\ UNCHANGED uiVars

\* one subdirectory is resolved: in any order under Promise.all, in listing
\* order in the loop of the earlier generation
ResolveApp ==
  /\ call.fn = "getScoopList"
  /\ cpc = "resolving"
  /\ \E i \in 1..Len(call.dirs) :
       /\ results[i].state = "pending"
       /\ call.variant = "earlier" =>
            \A j \in 1..(i - 1) : results[j].state # "pending"
       /\ results' = [results EXCEPT ![i] =
                        Resolve(call.variant, call.root, AppNames[i],
                                call.dirs[i], call.processArch)]
       /\ effects' = effects \o ReadsOf(ResolvedDirPath(call.variant, call.root, AppNames[i]),
                                        call.dirs[i])
  /\ UNCHANGED <<call, cpc, outcome>>
  /\ UNCHANGED checkVars
  /\ UNCHANGED uiVars

\* every subdirectory is resolved: getScoopList returns the records
ReturnList ==
  /\ call.fn = "getScoopList"
  /\ cpc = "resolving"
  /\ \A i \in 1..Len(call.dirs) : results[i].state # "pending"
  /\ outcome' = ReturnedList(FilterBoolean(results))
  /\ cpc' = "done"
  /\ UNCHANGED <<call, effects, results>>
  /\ UNCHANGED checkVars
  /\ UNCHANGED uiVars

\* execPromise(command): exec starts the child process
ExecPromise ==
  /\ call.fn = "execPromise"
  /\ cpc = "ready"
  /\ effects' = Append(effects, Effect("exec", call.command))
  /\ cpc' = "running"
  /\ UNCHANGED <<call, outcome, results>>
  /\ UNCHANGED checkVars
  /\ UNCHANGED uiVars

\* the child process exits: the callback settles the promise
ExecCallback ==
  /\ call.fn = "execPromise"
  /\ cpc = "running"
  /\ effects' = effects \o [i \in 1..Len(SettleCalls(call.variant, call.command, call.exitCode)) |->
                              Effect(SettleCalls(call.variant, call.command, call.exitCode)[i], <<>>)]
  /\ outcome' = execPromise(call.variant, call.command, call.exitCode)
  /\ cpc' = "done"
  /\ UNCHANGED <<call, results>>
  /\ UNCHANGED checkVars
  /\ UNCHANGED uiVars

NextCore ==
  \/ GetAppExeFromManifest
  \/ GetAppInfo
  \/ GetScoopList
  \/ ListAppDirs
  \/ ResolveApp
  \/ ReturnList
  \/ ExecPromise
  \/ ExecCallback

SpecCore == InitCore /\ [][NextCore]_vars


-----------------------------------------------------------------------------
(* Claims about the version check engine *)

\* checkNewVersion has settled
Done == pc \in {"settled", "reported"}

\* one of the failures of the network, the payload or the record occurred
CheckFailure ==
  \/ response.kind = "rejected"
  \/ response.kind = "notjson"
  \/ response.kind = "object"
  \/ \E i \in 1..Len(compiled) : compiled[i] \in Malformed
  \/ (app.checkver.type = "string" /\ app.homepage = Undefined /\ Done)

\* a text as checkNewVersion may return it: no undefined, no null
IsString(s) == s # Undefined /\ s # Null

\* C1: whatever the network and the payload do, checkNewVersion settles by
\* resolving with a string and never rejects; after a rejected fetch, a body
\* that is not JSON, a payload that is not a list, a malformed regex or a
\* missing homepage the string is ''
C1_NeverRejects ==
  /\ settled # "rejected"
  /\ Done => settled = "resolved" /\ IsString(result)
  /\ Done /\ CheckFailure => result = <<>>

\* a check that failed for a payload that is not a list resolved with ''
C1_Witness ==
  /\ Done /\ response.kind = "object"
  /\ settled = "resolved" /\ result = <<>>

\* C2: the value checkNewVersion returns is '' or the semantic-version
\* cleaning of the raw string of the strategy; raw 'v2.0.0' gives '2.0.0',
\* raw '1.2.3' gives '1.2.3', raw 'not-a-version' and 'V7.8.1' give ''
C2_ResultIsCleaned ==
  Done =>
    /\ result = <<>> \/ (raw.type = "return" /\ result = clean(raw.value)
                           /\ IsDigit(result[1]))
    /\ raw.type = "return" /\ raw.value = TagV200 => result = Version200
    /\ raw.type = "return" /\ raw.value = Tag123 => result = Tag123
    /\ raw.type = "return" /\ raw.value = TagUpperV => result = <<>>
    /\ raw.type = "return"
         /\ raw.value = <<"n", "o", "t", "-", "a", "-", "v", "e", "r", "s",
                          "i", "o", "n">>
         => result = <<>>

\* the raw tag v2.0.0 reached the caller as 2.0.0
C2_Witness ==
  Done /\ raw.type = "return" /\ raw.value = TagV200 /\ result = Version200

\* the prefixes http(s)://(www.)github.com/
GithubPrefixes ==
  {<<"https://", "github.com/">>, <<"http://", "github.com/">>,
   <<"https://", "www.", "github.com/">>, <<"http://", "www.", "github.com/">>}

IsPrefix(p, s) == Len(p) <= Len(s) /\ SubSeq(s, 1, Len(p)) = p

\* the releases url of the repo left when a GitHub prefix is taken off s
RequestsRepoOf(s) ==
  \A p \in GithubPrefixes :
    IsPrefix(p, s) =>
      requests[1].url = <<"https://", "api.github.com/repos/">>
                          \o Drop(s, Len(p)) \o <<"/releases">>

\* entry is the first of the list, in list order, that is no prerelease;
\* NoRelease when every entry is a prerelease
IsFirstRelease(entry, list) ==
  \/ /\ \A i \in 1..Len(list) : list[i].prerelease
     /\ entry = NoRelease
  \/ \E i \in 1..Len(list) :
       /\ ~list[i].prerelease
       /\ \A j \in 1..(i - 1) : list[j].prerelease
       /\ entry = list[i]

\* C3: with checkver 'github' the releases of the owner/repo of homepage are
\* queried, the tag name of the first entry that is no prerelease is taken,
\* and the result is '' when there is none or the call fails
C3_GithubString ==
  app.checkver.type = "string" /\ app.checkver.str = <<"github">> =>
    /\ Len(requests) <= 1
    /\ Len(requests) = 1 =>
         /\ RequestsRepoOf(app.homepage)
         /\ requests[1].ua = <<"Mozilla/5.0">>
    /\ Done /\ response.kind = "list" =>
         /\ IsFirstRelease(latest, response.list)
         /\ latest # NoRelease =>
              raw.type = "return" /\ raw.value = latest.tag_name
         /\ latest = NoRelease => result = <<>>
    /\ Done /\ response.kind # "list" => result = <<>>

\* a prerelease ahead of the release v2.0.0 was skipped
C3_Witness ==
  /\ app.checkver.type = "string" /\ app.checkver.str = <<"github">>
  /\ app.homepage = HomeGithubWww
  /\ Done
  /\ response.kind = "list"
  /\ response.list = <<Release(TagRc, TRUE), Release(TagV200, FALSE)>>
  /\ result = Version200

\* the checkver is an object that declares no script
ObjectNoScript == app.checkver.type = "object" /\ app.checkver.script = <<>>

\* the structured variants, by the selectors the checkver declares
GithubSelected == ObjectNoScript /\ app.checkver.github # <<>>
SourceforgeSelected ==
  /\ ObjectNoScript /\ app.checkver.github = <<>>
  /\ app.checkver.sourceforge # <<>>
UrlSelected ==
  /\ ObjectNoScript /\ app.checkver.github = <<>>
  /\ app.checkver.sourceforge = <<>> /\ app.checkver.url # <<>>

\* regex, or its alias re when regex is not declared
DeclaredRegex ==
  IF app.checkver.regex # <<>> THEN app.checkver.regex ELSE app.checkver.re

\* the first capture group of m if it took part, else the whole match
FirstGroupOrAll(m) == IF m.g1 = Undefined THEN m.whole ELSE m.g1

\* the raw version a match gives: the replace template when one is
\* declared, else the first capture group, else the whole match
RawOf(m) ==
  IF app.checkver.replace # <<>>
  THEN ReplaceTemplate(app.checkver.replace, m)
  ELSE FirstGroupOrAll(m)

\* C4: in the url variant the regex (or re) runs on the fetched body, the
\* last match is chosen when reverse is set and the first otherwise, the raw
\* version is the replace template result, else the first capture group,
\* else the whole match; no match or no regex gives ''
C4_UrlVariant ==
  UrlSelected =>
    /\ Len(requests) = 1 => requests[1].url = app.checkver.url
    /\ Done /\ response.kind = "text" =>
         /\ DeclaredRegex = <<>> => matches = <<>> /\ result = <<>>
         /\ DeclaredRegex \in Malformed => result = <<>>
         /\ DeclaredRegex # <<>> /\ DeclaredRegex \notin Malformed =>
              /\ compiled = <<DeclaredRegex>>
              /\ reSubject = response.text
              /\ matches = <<>> => raw.value = <<>> /\ result = <<>>
              /\ matches # <<>> =>
                   /\ raw.type = "return"
                   /\ app.checkver.reverse =>
                        raw.value = RawOf(matches[Len(matches)])
                   /\ ~app.checkver.reverse => raw.value = RawOf(matches[1])

\* of the three matches v1.4.0, v2.4.0, v3.4.0 reverse selected the last
C4_Witness ==
  /\ UrlSelected /\ Done
  /\ app.checkver.reverse /\ app.checkver.replace = <<>>
  /\ app.checkver.regex = <<>> /\ app.checkver.re # <<>>
  /\ Len(matches) = 3
  /\ matches[1].whole = <<"v", "1", ".", "4", ".", "0">>
  /\ matches[3].g1 = Undefined
  /\ raw.value = <<"v", "3", ".", "4", ".", "0">>
  /\ result = <<"3", ".", "4", ".", "0">>

\* what stands for a token of the template: the text captured by the
\* group the token names, the token itself when it names no group; a group
\* that took no part in the match captured no text, which reads either as
\* the empty text or (kept) as no group of the match at all
RECURSIVE CapturedBy(_, _, _)
CapturedBy(groups, token, kept) ==
  IF Len(groups) = 0 THEN <<token>>
  ELSE IF token = Placeholder(groups[1][1])
  THEN (IF groups[1][2] # Undefined THEN groups[1][2]
        ELSE IF kept THEN <<token>> ELSE <<>>)
  ELSE CapturedBy(Tail(groups), token, kept)

\* the template with every ${g} of a named group g of the match replaced
\* by the text g captured
RECURSIVE Substituted(_, _, _)
Substituted(template, groups, kept) ==
  IF Len(template) = 0 THEN <<>>
  ELSE CapturedBy(groups, template[1], kept)
         \o Substituted(Tail(template), groups, kept)

\* the match the replace template is applied to
TemplateMatch ==
  IF UrlSelected /\ app.checkver.reverse THEN matches[Len(matches)]
  ELSE matches[1]

\* C5: with a replace template declared, the raw version is the template
\* in which every ${g} of every named group g of the chosen match is
\* replaced by the text g captured; {major: '3', minor: '4'} with
\* '${major}.${minor}.0' give '3.4.0'
C5_ReplaceTemplate ==
  /\ (GithubSelected \/ UrlSelected)
  /\ app.checkver.replace # <<>>
  /\ Done /\ raw.type = "return" /\ matches # <<>>
  => /\ \E kept \in BOOLEAN :
          raw.value = Substituted(app.checkver.replace, TemplateMatch.groups,
                                  kept)
     /\ /\ app.checkver.replace = TemplateMajorMinor
        /\ TemplateMatch.groups = << <<"major", <<"3">> >>,
                                     <<"minor", <<"4">> >> >>
        => raw.value = <<"3", ".", "4", ".", "0">>

\* C6: in the structured github variant the releases of the declared repo
\* are fetched with the declared user agent (the default otherwise) and the
\* first entry that is no prerelease is selected; a declared regex runs on
\* the serialized JSON of that entry and the raw version is the replace
\* template result, else the first capture group, else the whole match,
\* '' without match; without regex the raw version is the entry's tag name
C6_GithubVariant ==
  GithubSelected =>
    /\ Len(requests) = 1 =>
         /\ RequestsRepoOf(app.checkver.github)
         /\ requests[1].ua = IF app.checkver.userAgent # <<>>
                             THEN app.checkver.userAgent
                             ELSE <<"Mozilla/5.0">>
    /\ Done /\ response.kind = "list" =>
         /\ IsFirstRelease(latest, response.list)
         /\ app.checkver.regex = <<>> =>
              /\ matches = <<>> /\ raw.type = "return"
              /\ latest # NoRelease => raw.value = latest.tag_name
              /\ latest = NoRelease => raw.value = <<>>
         /\ app.checkver.regex # <<>> /\ latest = NoRelease => result = <<>>
         /\ /\ app.checkver.regex # <<>>
            /\ app.checkver.regex \notin Malformed
            /\ latest # NoRelease
            => /\ compiled = <<app.checkver.regex>>
               /\ reSubject = <<"{\"tag_name\":\"">> \o latest.tag_name
                                \o <<"\",\"prerelease\":", "false", "}">>
               /\ matches = <<>> => raw.value = <<>> /\ result = <<>>
               /\ matches # <<>> =>
                    raw.type = "return" /\ raw.value = RawOf(matches[1])

\* the regex ran on the JSON of the release behind a prerelease, with the
\* declared user agent, and its capture group gave the raw version
C6_Witness ==
  /\ GithubSelected /\ Done
  /\ app.checkver.userAgent = UserAgentCustom
  /\ requests[1].ua = UserAgentCustom
  /\ app.checkver.replace = <<>>
  /\ response.kind = "list"
  /\ response.list = <<Release(TagRc, TRUE), Release(TagUpperV, FALSE)>>
  /\ Len(matches) = 1
  /\ raw.value = <<"7", ".", "8", ".", "1">>
  /\ result = <<"7", ".", "8", ".", "1">>

\* the feed has a <link> element
HasLink(xml) ==
  /\ IndexOf(xml, {"<link>"}) # 0
  /\ IndexOf(Drop(xml, IndexOf(xml, {"<link>"})), {"</link>"}) # 0

\* the text between the first <link> of the feed and the </link> closing it
InnerOfFirstLink(xml) ==
  LET rest == Drop(xml, IndexOf(xml, {"<link>"}))
  IN SubSeq(rest, 1, IndexOf(rest, {"</link>"}) - 1)

\* C7: in the sourceforge variant the inner text of the first <link> of the
\* feed is extracted; a declared regex (or re) is applied to it and the raw
\* version is its first capture group without a leading 'v', '' without
\* match; without regex the raw version is the link text; without <link>
\* it is ''
C7_SourceforgeVariant ==
  SourceforgeSelected /\ Done /\ response.kind = "text" =>
    /\ ~HasLink(response.text) => raw.value = <<>> /\ result = <<>>
    /\ HasLink(response.text) /\ DeclaredRegex = <<>> =>
         /\ raw.type = "return"
         /\ raw.value = InnerOfFirstLink(response.text)
         /\ matches = <<>>
    /\ /\ HasLink(response.text)
       /\ DeclaredRegex # <<>> /\ DeclaredRegex \notin Malformed
       => /\ compiled = <<DeclaredRegex>>
          /\ reSubject = InnerOfFirstLink(response.text)
          /\ matches = <<>> => raw.value = <<>> /\ result = <<>>
          /\ matches # <<>> /\ matches[1].g1 # Undefined =>
               /\ raw.type = "return"
               /\ raw.value = IF matches[1].g1[1] = "v"
                              THEN Tail(matches[1].g1) ELSE matches[1].g1

\* the regex captured v1.2.3 in the first link and the raw version is 1.2.3
C7_Witness ==
  /\ SourceforgeSelected /\ Done
  /\ response.kind = "text"
  /\ InnerOfFirstLink(response.text) = LinkUrl
  /\ Len(matches) = 1
  /\ matches[1].g1 = <<"v", "1", ".", "2", ".", "3">>
  /\ raw.value = <<"1", ".", "2", ".", "3">>
  /\ result = <<"1", ".", "2", ".", "3">>

\* checkNewVersion was called on app
CheckCalled == pc \in {"fetching", "settled", "reported"}

\* C8: a checkver string other than 'github' is compiled as a regex and run
\* on the fetched body of homepage; the raw version is the first capture
\* group of the first match, else the whole first match; no match gives ''
C8_RegexString ==
  app.checkver.type = "string" /\ app.checkver.str # <<"github">> =>
    /\ CheckCalled => compiled = <<app.checkver.str>>
    /\ Len(requests) = 1 =>
         requests[1].url = app.homepage /\ app.checkver.str \notin Malformed
    /\ Done /\ response.kind = "text" =>
         /\ reSubject = response.text
         /\ matches = <<>> => raw.value = <<>> /\ result = <<>>
         /\ matches # <<>> =>
              /\ raw.type = "return"
              /\ raw.value = FirstGroupOrAll(matches[1])

\* of two matches the first was taken, and its capture group rather than
\* the whole of it
C8_Witness ==
  /\ app.checkver.type = "string" /\ app.checkver.str = RegexSrc
  /\ Done /\ Len(matches) = 2
  /\ matches[1].whole = <<"v", "2", ".", "4", ".", "0">>
  /\ matches[1].g1 = <<"2", ".", "4", ".", "0">>
  /\ raw.value = <<"2", ".", "4", ".", "0">>
  /\ result = <<"2", ".", "4", ".", "0">>

\* C9: a checkver object that declares script makes checkNewVersion return
\* '' without any network request, whatever else it declares
C9_ScriptIsNoOp ==
  app.checkver.type = "object" /\ app.checkver.script # <<>> =>
    /\ requests = <<>>
    /\ response = NoResponse
    /\ pc # "fetching"
    /\ CheckCalled => settled = "resolved" /\ result = <<>>

\* a check with script, github, sourceforge and url declared has returned
C9_Witness ==
  /\ app.checkver.script # <<>> /\ app.checkver.github # <<>>
  /\ app.checkver.sourceforge # <<>> /\ app.checkver.url # <<>>
  /\ pc = "reported" /\ result = <<>> /\ requests = <<>>

\* C10: the result r and the declared version v give exactly one of three
\* outcomes: check failed when r is '', no update when r equals v, update
\* available when r is not '' and differs from v; handleCheckNewVersion
\* reports that one, and hasUpdate of getAppVersionStatus is true exactly
\* when the cached newVersion is not '' and differs from v
C10_ThreeOutcomes ==
  /\ pc = "reported" =>
       /\ toast \in {"Check Failed", "Up to Date", "Update Available"}
       /\ toast = "Check Failed" <=> result = <<>>
       /\ toast = "Up to Date" <=> result = app.version
       /\ toast = "Update Available" <=>
            (result # <<>> /\ result # app.version)
  /\ versionStatus # NotRendered =>
       (versionStatus.hasUpdate <=>
          /\ "app" \in DOMAIN appVersionInfo
          /\ appVersionInfo["app"].newVersion # <<>>
          /\ appVersionInfo["app"].newVersion # app.version)

\* a check reported no update while the cached entry showed one
C10_Witness ==
  /\ pc = "reported" /\ toast = "Up to Date" /\ result = app.version
  /\ versionStatus.hasUpdate
  /\ appVersionInfo["app"].newVersion = <<"1", ".", "2", ".", "3">>


-----------------------------------------------------------------------------
(* Claims about the core called on a disk (SpecCore) *)

\* the call of fn has ended
Ended(fn) == call.fn = fn /\ cpc = "done"

\* the subdirectories whose manifest.json and install.json both read and parse
ValidDirs == {i \in 1..Len(call.dirs) :
                /\ call.dirs[i].manifest.state = "json"
                /\ call.dirs[i].install.state = "json"}

\* the name a record carries (appName; name in the earlier generation)
RecordName(record) ==
  IF call.variant = "earlier" THEN record.name ELSE record.appName

\* C11: getScoopList on a valid root whose apps directory lists at least one
\* subdirectory returns, without throwing, exactly one record for each
\* subdirectory whose manifest.json and install.json both read and parse,
\* and no record for any other subdirectory.
C11_EnumerationIsolated ==
  (/\ Ended("getScoopList")
   /\ isValidScoopRoot(call.root)
   /\ call.root.listable
   /\ Len(call.dirs) > 0)
    => /\ outcome.state = "returned"
       /\ outcome.type = "list"
       /\ Len(outcome.records) = Cardinality(ValidDirs)
       /\ {RecordName(outcome.records[k]) : k \in 1..Len(outcome.records)}
            = {AppNames[i] : i \in ValidDirs}


\* C12: getAppInfo(name) never throws; it returns null whenever manifest.json
\* or install.json is missing, unreadable or not valid JSON, and when both
\* parse it returns a record whose dirPath is {root}/apps/{name}/current and
\* whose appName is name.
C12_GetAppInfo ==
  Ended("getAppInfo") =>
    /\ outcome.state = "returned"
    /\ IF /\ call.dirs[1].manifest.state = "json"
          /\ call.dirs[1].install.state = "json"
       THEN /\ outcome.type = "record"
            /\ outcome.records[1].dirPath
                 = ScoopRoot(call.root) \o <<"/", "apps", "/", call.appName, "/", "current">>
            /\ outcome.records[1].appName = call.appName
       ELSE outcome.type = "null"

\* a manifest that parses beside an install.json that is not JSON: null
C12_Witness ==
  /\ Ended("getAppInfo")
  /\ call.dirs[1].manifest.state = "json"
  /\ call.dirs[1].install.state = "corrupt"
  /\ outcome.type = "null"


\* the records the last call of the Manifest Reader produced
ReaderRecords ==
  IF Ended("getAppInfo") \/ Ended("getScoopList") THEN outcome.records ELSE <<>>

\* the manifest a record was read from
ManifestOfRecord(k) ==
  IF call.fn = "getAppInfo" THEN call.dirs[1].manifest.content
  ELSE call.dirs[CHOOSE i \in 1..Len(call.dirs) :
                   AppNames[i] = RecordName(outcome.records[k])].manifest.content

\* C13: in every record the Manifest Reader produces, description is a
\* string: the first element of a declared list of strings, the declared
\* string, and the empty string when the manifest declares no description.
C13_DescriptionIsString ==
  \A k \in 1..Len(ReaderRecords) :
    LET declared == ManifestOfRecord(k).description
        description == ReaderRecords[k].description
    IN /\ description.kind = "string"
       /\ declared.kind = "array" /\ Len(declared.items) > 0
            => description = declared.items[1]
       /\ declared.kind = "string" => description = declared
       /\ declared.kind = "undefined" => description = JString(<<>>)


\* what one step of the locator yields from a declaration: the declared
\* string, or the string that heads the flattened list; undefined otherwise
StepYield(decl) ==
  IF decl.kind = "string" /\ decl.text # <<>> THEN decl
  ELSE IF /\ decl.kind = "array"
          /\ FlatInfinity(decl.items) # <<>>
          /\ FlatInfinity(decl.items)[1].kind = "string"
       THEN FlatInfinity(decl.items)[1]
  ELSE JUndefined

\* the first of the steps that yielded a string, '' when none did
FirstYield(steps) ==
  IF \E i \in 1..Len(steps) : steps[i].kind = "string"
  THEN steps[CHOOSE i \in 1..Len(steps) :
               /\ steps[i].kind = "string"
               /\ \A j \in 1..(i - 1) : steps[j].kind # "string"].text
  ELSE <<>>

\* the architecture block selected for the running process: the block under
\* '64bit' for x64, '32bit' for ia32, 'arm64' for arm64, none otherwise
SelectedBlock ==
  IF ~call.manifest.architecture.declared THEN NoArchBlock
  ELSE CASE call.processArch = "x64" -> call.manifest.architecture.b64
         [] call.processArch = "ia32" -> call.manifest.architecture.b32
         [] call.processArch = "arm64" -> call.manifest.architecture.barm
         [] OTHER -> NoArchBlock

\* C14: the Executable Locator returns what the first of four steps yields,
\* in the order top-level shortcuts, top-level bin, shortcuts of the selected
\* architecture block, bin of that block, and '' when no step yields a
\* string.
C14_LocatorOrder ==
  Ended("getAppExeFromManifest") =>
    outcome = ReturnedText(FirstYield(<<StepYield(call.manifest.shortcuts),
                                        StepYield(call.manifest.bin),
                                        StepYield(SelectedBlock.shortcuts),
                                        StepYield(SelectedBlock.bin)>>))

\* the first string among the leaves of a declaration: the declaration
\* itself when it is a bare string; undefined when it holds no string
RECURSIVE FirstStringOf(_)
FirstStringOf(leaves) ==
  IF leaves = <<>> THEN JUndefined
  ELSE IF Head(leaves).kind = "string" THEN Head(leaves)
  ELSE FirstStringOf(Tail(leaves))
FirstStringElement(decl) ==
  IF decl.kind = "string" THEN decl
  ELSE IF decl.kind = "array" THEN FirstStringOf(FlatInfinity(decl.items))
  ELSE JUndefined

\* C15: a shortcuts declaration that is a bare string resolves to that
\* string, and one that is a list, nested to any depth, resolves to the first
\* string element of the flattened list, also when an element that is not a
\* string comes before it; so does bin when no shortcuts are declared.
C15_FlattenFirstString ==
  Ended("getAppExeFromManifest") =>
    /\ FirstStringElement(call.manifest.shortcuts).kind = "string"
         => outcome = ReturnedText(FirstStringElement(call.manifest.shortcuts).text)
    /\ (/\ call.manifest.shortcuts.kind = "undefined"
        /\ FirstStringElement(call.manifest.bin).kind = "string")
         => outcome = ReturnedText(FirstStringElement(call.manifest.bin).text)

\* C16: with nothing declared at top level and an architecture object
\* declared, the locator returns what the block under the key of the process
\* architecture yields (shortcuts, then bin), and returns '' without raising
\* an error when the object has no block under that key.
C16_ArchitectureBlock ==
  (/\ Ended("getAppExeFromManifest")
   /\ call.manifest.shortcuts.kind = "undefined"
   /\ call.manifest.bin.kind = "undefined"
   /\ call.manifest.architecture.declared)
    => /\ outcome.state = "returned"
       /\ outcome.text = FirstYield(<<StepYield(SelectedBlock.shortcuts),
                                      StepYield(SelectedBlock.bin)>>)
       /\ ~SelectedBlock.present => outcome = ReturnedText(<<>>)


\* the configured install root is unset, does not exist or has no apps
RootUnusable ==
  \/ \A i \in 1..Len(call.root.preference) : call.root.preference[i] = " "
  \/ ~call.root.exists
  \/ ~call.root.hasApps

\* C17: with the install root unset, missing or without apps, getScoopList
\* and getAppInfo end by throwing an error with a message, never by
\* returning, and getScoopList has then listed no directory and read no file.
C17_InvalidRootFailsFast ==
  (/\ Ended("getScoopList") \/ Ended("getAppInfo")
   /\ RootUnusable)
    => /\ outcome.state = "thrown"
       /\ outcome.text # <<>>
       /\ call.fn = "getScoopList" =>
            \A i \in 1..Len(effects) : effects[i].op \notin {"readdir", "readFile"}


-----------------------------------------------------------------------------
(* Claims about the lifecycle methods (Spec) *)

\* a lifecycle method was called on app; it has ended
LifecycleCalled == pc = "lifecycle"
LifecycleEnded == pc = "lifecycle" /\ cpc = "done"

\* part occurs in text as a run of consecutive tokens
Contains(text, part) ==
  \E i \in 0..(Len(text) - Len(part)) : SubSeq(text, i + 1, i + Len(part)) = part

\* the package manager subcommand of the method called
CalledSubcommand ==
  CASE call.fn = "updateNewVersion" -> "update"
    [] call.fn = "uninstallApp" -> "uninstall"
    [] call.fn = "resetApp" -> "reset"
    [] OTHER -> "none"

\* C18: updateNewVersion, uninstallApp and resetApp run `scoop <subcommand>
\* {bucket}/{name}` for the given record; when the command exits non-zero the
\* method throws an error whose message contains the package name and the
\* message of the command's error, and when it exits zero the method returns.
C18_LifecycleErrors ==
  /\ LifecycleCalled =>
       /\ Len(effects) = 1
       /\ effects[1].op = "exec"
       /\ effects[1].path
            = <<"scoop ", CalledSubcommand, " ">> \o app.bucket \o <<"/", app.appName>>
  /\ LifecycleEnded =>
       IF call.exitCode # 0
       THEN /\ outcome.state = "thrown"
            /\ Contains(outcome.text, <<app.appName>>)
            /\ Contains(outcome.text, <<"Command failed: ">> \o effects[1].path)
       ELSE outcome.state = "returned"

\* uninstallApp whose command exited with code 1 has thrown
C18_Witness ==
  /\ LifecycleEnded
  /\ call.fn = "uninstallApp"
  /\ call.exitCode = 1
  /\ outcome.state = "thrown"
  /\ app.bucket = <<"unknown">>


-----------------------------------------------------------------------------
(* Claims about the external command runner (SpecCore) *)

\* the command is a 'reveal in file explorer' command
IsExplorerSelect == Len(call.command) > 0 /\ call.command[1] = "explorer /select"

\* C19: the promise of execPromise settles as resolved for an explorer
\* /select command that exits with code 1 and for every command that exits
\* with code 0, and as rejected for every other command that exits non-zero.
C19_ExplorerExitCode ==
  Ended("execPromise") =>
    /\ (IsExplorerSelect /\ call.exitCode = 1) => outcome.state = "returned"
    /\ (~IsExplorerSelect /\ call.exitCode # 0) => outcome.state = "thrown"
    /\ call.exitCode = 0 => outcome.state = "returned"

\* explorer /select exited with code 1: resolve() was called, then
\* reject(error), and the promise is resolved
C19_Witness ==
  /\ Ended("execPromise")
  /\ IsExplorerSelect
  /\ call.exitCode = 1
  /\ outcome.state = "returned"
  /\ Len(effects) = 3
  /\ effects[2].op = "resolve"
  /\ effects[3].op = "reject"


-----------------------------------------------------------------------------
(* No retries (Spec) *)

\* the child processes started so far
Executions == {i \in 1..Len(effects) : effects[i].op = "exec"}

\* C20: one invocation of checkNewVersion issues at most one network request,
\* and none after a request failed; one invocation of updateNewVersion,
\* uninstallApp or resetApp starts its command exactly once, also when the
\* command failed.
C20_NoRetries ==
  /\ Len(requests) <= 1
  /\ (pc \in {"settled", "reported"} /\ response.kind = "rejected")
       => Len(requests) = 1
  /\ LifecycleCalled => Cardinality(Executions) = 1
  /\ ~LifecycleCalled => Cardinality(Executions) = 0

\* a lifecycle command exited non-zero, the method threw, and the command
\* was started once
C20_Witness ==
  /\ LifecycleEnded
  /\ call.exitCode = 2
  /\ outcome.state = "thrown"
  /\ Cardinality(Executions) = 1

-----------------------------------------------------------------------------
(* The views: the installed list (src/scoop-list.tsx 159-731) and the       *)
(* search of available apps (src/unnamed/part_001).  A handler is an async  *)
(* function of the render in which the user invoked it: it closes over the  *)
(* state of that render (apps, appVersionInfo, filteredApps,                *)
(* selectedBucket) and keeps those values across its awaits, while a        *)
(* functional updater (setApps(current => ...)) is applied to the state of  *)
(* the moment.  The single check, handleCheckNewVersion, writes no state    *)
(* and is modelled in detail by Spec.                                       *)

\* handler invocations of the user in one behaviour
MaxHandlers == 2

Version123 == <<"1", ".", "2", ".", "3">>
BucketExtras == <<"extras">>

\* the fields of AppInfo the views read
InstalledApp(appName, version, bucket) ==
  [appName |-> appName, version |-> version, bucket |-> bucket]

NoApp == InstalledApp("", <<>>, <<>>)
Git(version) == InstalledApp("git", version, BucketMain)
Vim(version) == InstalledApp("vim", version, BucketExtras)

\* what getScoopList can find on the disk, and the messages it throws
InstalledLists ==
  {<<Git(Version200), Vim(Version123)>>, <<Vim(Version123)>>}
ScoopListOutcomes ==
  {ReturnedList(l) : l \in InstalledLists} \cup {Thrown(RootInvalid)}

\* what getAppInfo(appName) can return after an update
ReloadOutcomes(a) ==
  {ReturnedNull, ReturnedRecord(InstalledApp(a.appName, Version200, a.bucket))}

\* what checkNewVersion can resolve with: '' for a failed check
CheckResultsOf(a) == {<<>>, Version123, Version200}

\* one entry of appVersionInfo
VersionEntry(newVersion, lastChecked) ==
  [newVersion |-> newVersion, lastChecked |-> lastChecked]

\* the version caches an earlier session can have left behind
PersistedVersionCaches ==
  {NoCache,
   [n \in {"git", "vim"} |-> VersionEntry(Version200, 0)]}

\* const newCache = { ...prev }; delete newCache[appName]
DeleteKey(cache, key) == [k \in DOMAIN cache \ {key} |-> cache[k]]

\* filteredApps
FilteredApps(list, bucket) ==
  IF bucket # <<>> THEN SelectSeq(list, LAMBDA a : a.bucket = bucket) ELSE list

\* currentApps.map(a => a.appName === updated.appName ? updated : a)
ReplaceApp(list, appName, updated) ==
  [i \in 1..Len(list) |-> IF list[i].appName = appName THEN updated ELSE list[i]]

\* currentApps.filter(a => a.appName !== appName)
RemoveApp(list, appName) == SelectSeq(list, LAMBDA a : a.appName # appName)

\* the elements of a list
Range(list) == {list[i] : i \in 1..Len(list)}

\* the kinds of handler that read the apps, or the cache, of their render
\* after an await
ReadsApps(kind) == kind \in {"update", "load", "refreshAvailable"}
ReadsCache(kind) == kind \in {"checkAll", "load", "refreshAvailable"}

\* a handler invocation: what it closed over and reads again later (the apps
\* and the cache of its render), where it stands, what it did so far, how
\* the operation it passed to withErrorHandling ended and what
\* withErrorHandling returned; for a catalog load, the installed names and
\* the time of the moment it started
Handler(kind, a, at, batch, tasks, shown) ==
  [kind |-> kind, app |-> a, pc |-> at, confirmed |-> FALSE,
   apps |-> IF ReadsApps(kind) THEN apps ELSE <<>>,
   cache |-> IF ~ReadsCache(kind) THEN <<>>
             ELSE IF view = "list" THEN appVersionCache ELSE availableAppsCache,
   batch |-> batch, tasks |-> tasks, toasts |-> shown, commands |-> <<>>,
   operation |-> NoOutcome, result |-> NoOutcome,
   started |-> [installed |-> {}, at |-> 0]]

\* no handler returned in the last step
NoHandler ==
  [kind |-> "none", app |-> NoApp, pc |-> "done", confirmed |-> FALSE,
   apps |-> <<>>, cache |-> <<>>, batch |-> <<>>, tasks |-> <<>>,
   toasts |-> <<>>, commands |-> <<>>, operation |-> NoOutcome, result |-> NoOutcome,
   started |-> [installed |-> {}, at |-> 0]]

\* ToastMessages: every template gives a title and a message
Message(title, message) == [title |-> title, message |-> message]

UpToDate(appName) ==
  Message("Up to Date", appName \o <<" is already on the latest version">>)
CheckCompleted(count) ==
  Message("Check Completed",
          IF count > 0 THEN <<"Found ", DigitOf(count), " apps with updates available">>
          ELSE <<"All apps are up-to-date">>)
UpdateSuccess(appName, version) ==
  Message("Update Completed",
          IF version # <<>> THEN <<"Successfully updated ", appName, " to version ">> \o version
          ELSE <<"Successfully updated ", appName>>)
UpdateFailed(appName, error) ==
  Message("Update Failed",
          IF error # <<>> THEN <<"Failed to update ", appName, ": ">> \o error
          ELSE <<"Failed to update ", appName>>)
UninstallSuccess(appName) ==
  Message("App Uninstalled", <<"Successfully uninstalled ", appName>>)
UninstallFailed(appName, error) ==
  Message("Uninstall Failed",
          IF error # <<>> THEN <<"Failed to uninstall ", appName, ": ">> \o error
          ELSE <<"Failed to uninstall ", appName>>)
ResetSuccess(appName) ==
  Message("App Reset", <<"Successfully reset ", appName>>)
ResetFailed(appName, error) ==
  Message("Reset Failed",
          IF error # <<>> THEN <<"Failed to reset ", appName, ": ">> \o error
          ELSE <<"Failed to reset ", appName>>)
InstallFailed(appName, error) ==
  Message("Install Failed",
          IF error # <<>> THEN <<"Failed to install ", appName, ": ">> \o error
          ELSE <<"Failed to install ", appName>>)
SearchFailed(error) ==
  Message("Error Loading Available Apps",
          IF error # <<>> THEN <<"Failed to load available apps: ">> \o error
          ELSE <<"Failed to load available apps">>)
LoadingFailed(error) ==
  Message("Error Loading Apps",
          IF error # <<>> THEN <<"Failed to load Scoop apps: ">> \o error
          ELSE <<"Failed to load Scoop apps">>)
RefreshCompleted ==
  Message("App List Reloaded", <<"Successfully refreshed the app list">>)
BulkUpdateCompleted(count) ==
  Message("Bulk Update Completed",
          <<"Finished checking ", DigitOf(count), " apps for updates">>)

\* showSuccessToast / showErrorToast: the toast and the package it is about
Shown(about, style, template) ==
  [about |-> about, style |-> style,
   title |-> template.title, message |-> template.message]
Success(about, template) == Shown(about, "success", template)
Failure(about, template) == Shown(about, "failure", template)

\* the errorToast arguments the handlers pass: errorMessage => template
ErrorToast(template, appName, errorMessage) ==
  CASE template = "APP_UPDATE" -> UpdateFailed(appName, errorMessage)
    [] template = "APP_UNINSTALL" -> UninstallFailed(appName, errorMessage)
    [] template = "APP_RESET" -> ResetFailed(appName, errorMessage)
    [] template = "APP_INSTALL" -> InstallFailed(appName, errorMessage)
    [] template = "APP_SEARCH" -> SearchFailed(errorMessage)
    [] OTHER -> LoadingFailed(errorMessage)

\* `return true` of an operation
ReturnedTrue == Outcome("returned", "boolean", <<"true">>, <<>>)

\* withErrorHandling(operation, errorToast, successToast): the toasts it
\* shows and what it returns, for the way `await operation()` operation
withErrorHandling(about, operation, errorToast, successToast) ==
  IF operation.state = "thrown"
  THEN [toasts |-> <<Failure(about, ErrorToast(errorToast, about, operation.text))>>,
        result |-> ReturnedNull]
  ELSE [toasts |-> IF successToast.title # "" THEN <<Success(about, successToast)>>
                   ELSE <<>>,
        result |-> operation]

\* `if (result)`
Succeeded(returned) == returned.type \in {"record", "list", "boolean"}

\* handler h after `await withErrorHandling(...)`
Handled(h, operation, handled) ==
  [h EXCEPT !.operation = operation, !.result = handled.result]
-----------------------------------------------------------------------------
(* The installed list: its handlers *)

\* the handlers the action panel of a displayed item offers
ListOpen == view = "list" /\ invoked < MaxHandlers
Displayed == Range(FilteredApps(apps, selectedBucket))

\* what the handlers of the installed list leave alone
ListFrame ==
  /\ UNCHANGED <<view, availableAppsCache, allAvailableApps, clock>>
  /\ UNCHANGED <<checkVars, coreVars>>

\* the handlers that have not returned
InFlight == BagToSet(handlers)

\* handler h stands at `at`
At(h, kind, at) == h.kind = kind /\ h.pc = at

\* a handler that returned holds on to nothing
Released(handler) == [handler EXCEPT !.pc = "done", !.apps = <<>>, !.cache = <<>>]

\* the handler that returned in the last step, and the list and the cache
\* it found when it resumed
Returned(handler) ==
  [handler |-> handler, apps |-> apps,
   cache |-> IF view = "list" THEN appVersionCache ELSE availableAppsCache]
NoneReturned == [handler |-> NoHandler, apps |-> <<>>, cache |-> <<>>]

\* handler h goes on to its next await
Moves(h, handler) ==
  /\ handlers' = (handlers (-) SetToBag({h})) (+) SetToBag({handler})
  /\ ended' = NoneReturned
  /\ UNCHANGED invoked

\* handler h, in the state `handler`, shows toasts and returns
Returns(h, handler, shown) ==
  /\ handlers' = handlers (-) SetToBag({h})
  /\ ended' = Returned(Released([handler EXCEPT !.toasts = @ \o shown]))
  /\ UNCHANGED invoked

\* the user invokes a handler: it runs up to its first await, or to its end
Invoke(kind, a, at, batch, shown) ==
  LET handler == Handler(kind, a, at, batch, [i \in 1..Len(batch) |-> NoOutcome], shown)
  IN /\ invoked' = invoked + 1
     /\ IF at = "done"
        THEN ended' = Returned(Released(handler)) /\ UNCHANGED handlers
        ELSE handlers' = handlers (+) SetToBag({handler}) /\ ended' = NoneReturned

\* the dropdown: onChange sets selectedBucket, null for 'all' (the
\* selection is read when a handler is invoked only, so it is followed
\* while the user can still invoke one)
SelectBucket ==
  /\ ListOpen
  /\ \E b \in {<<>>} \cup {a.bucket : a \in Range(apps)} :
       /\ b # selectedBucket
       /\ selectedBucket' = b
  /\ ended' = NoneReturned
  /\ UNCHANGED <<apps, appVersionCache, handlers, invoked>>
  /\ ListFrame

\* handleCheckAllNewVersions up to `await Promise.all(...)`: one check is
\* started for every app of filteredApps
HandleCheckAllNewVersions ==
  /\ ListOpen
  /\ Displayed # {}
  /\ Invoke("checkAll", NoApp, "checking", FilteredApps(apps, selectedBucket), <<>>)
  /\ UNCHANGED <<apps, appVersionCache, selectedBucket>>
  /\ ListFrame

\* the cache written without the entries of the failed checks
WriteResultsSkipFailed(cache, batch, tasks, now) ==
  LET names == {batch[i].appName : i \in 1..Len(batch)}
      found == {batch[i].appName : i \in {j \in 1..Len(batch) : tasks[j].text # <<>>}}
      last(n) == CHOOSE i \in 1..Len(batch) :
                   /\ batch[i].appName = n
                   /\ \A j \in (i + 1)..Len(batch) : batch[j].appName # n
  IN IF found # names THEN cache
     ELSE [n \in DOMAIN cache \cup names |->
             IF n \in names THEN VersionEntry(tasks[last(n)].text, now) ELSE cache[n]]

\* results.forEach(...) on { ...appVersionInfo }: the closed-over cache with
\* the entries of the checked apps written over it
WriteResults(cache, batch, tasks, now) ==
  LET names == {batch[i].appName : i \in 1..Len(batch)}
      last(n) == CHOOSE i \in 1..Len(batch) :
                   /\ batch[i].appName = n
                   /\ \A j \in (i + 1)..Len(batch) : batch[j].appName # n
  IN [n \in DOMAIN cache \cup names |->
        IF n \in names THEN VersionEntry(tasks[last(n)].text, now) ELSE cache[n]]

\* appsToCheck.filter(app => getAppVersionStatus(app).hasUpdate).length:
\* getAppVersionStatus is the one of the handler's render
UpdatesAvailable(batch, cache) ==
  Len(SelectSeq(batch, LAMBDA a : getAppVersionStatus(a, cache).hasUpdate))

\* every task of the batch has ended
AllEnded(tasks) == \A i \in 1..Len(tasks) : tasks[i].state \in {"returned", "thrown"}

\* one checkNewVersion(app) of a bulk check resolves; the last one lets
\* Promise.all resolve and the handler run to its end: the cache is written
\* and the completion toast shown
CheckSettles ==
  /\ view = "list"
  /\ \E h \in InFlight :
       /\ At(h, "checkAll", "checking")
       /\ \E i \in 1..Len(h.tasks) :
            /\ h.tasks[i].state = "pending"
            /\ \E newVersion \in CheckResultsOf(h.batch[i]) :
                 LET me == h
                     tasks == [me.tasks EXCEPT ![i] = ReturnedText(newVersion)]
                 IN IF AllEnded(tasks)
                    THEN /\ appVersionCache' = WriteResults(me.cache, me.batch, tasks, clock)
                         /\ Returns(h, [me EXCEPT !.tasks = tasks],
                                    <<Success("", CheckCompleted(
                                        UpdatesAvailable(me.batch, me.cache)))>>)
                    ELSE /\ Moves(h, [me EXCEPT !.tasks = tasks])
                         /\ UNCHANGED appVersionCache
  /\ UNCHANGED <<apps, selectedBucket>>
  /\ ListFrame

\* handleUpdateNewVersion up to `await confirmAlert(...)`
HandleUpdateNewVersion ==
  /\ ListOpen
  /\ \E a \in Displayed :
       IF getAppVersionStatus(a, appVersionCache).hasUpdate
       THEN Invoke("update", a, "dialog", <<>>, <<>>)
       ELSE Invoke("update", a, "done", <<>>,
                   <<Success(a.appName, UpToDate(<<a.appName>>))>>)
  /\ UNCHANGED <<apps, appVersionCache, selectedBucket>>
  /\ ListFrame

\* currentApps.filter(app => getAppVersionStatus(app).hasUpdate)
AppsToUpdate(list, cache) ==
  SelectSeq(list, LAMBDA a : getAppVersionStatus(a, cache).hasUpdate)

\* handleUpdateAllApps up to `await confirmAlert(...)`
HandleUpdateAllApps ==
  /\ ListOpen
  /\ Displayed # {}
  /\ LET appsToUpdate == AppsToUpdate(FilteredApps(apps, selectedBucket), appVersionCache)
     IN IF Len(appsToUpdate) = 0
        THEN Invoke("updateAll", NoApp, "done", <<>>,
                    <<Success("", UpToDate(IF selectedBucket # <<>> THEN selectedBucket
                                           ELSE <<"all apps">>))>>)
        ELSE Invoke("updateAll", NoApp, "dialog", appsToUpdate, <<>>)
  /\ UNCHANGED <<apps, appVersionCache, selectedBucket>>
  /\ ListFrame

\* handleRefreshAppList, handleUninstallApp and handleResetApp up to
\* `await confirmAlert(...)`
HandleRefreshAppList ==
  /\ ListOpen
  /\ Displayed # {}
  /\ Invoke("refresh", NoApp, "dialog", <<>>, <<>>)
  /\ UNCHANGED <<apps, appVersionCache, selectedBucket>>
  /\ ListFrame

HandleUninstallApp ==
  /\ ListOpen
  /\ \E a \in Displayed : Invoke("uninstall", a, "dialog", <<>>, <<>>)
  /\ UNCHANGED <<apps, appVersionCache, selectedBucket>>
  /\ ListFrame

HandleResetApp ==
  /\ ListOpen
  /\ \E a \in Displayed : Invoke("reset", a, "dialog", <<>>, <<>>)
  /\ UNCHANGED <<apps, appVersionCache, selectedBucket>>
  /\ ListFrame

\* the subcommand the handler of a kind runs after its dialog
SubcommandOfKind(kind) ==
  CASE kind \in {"update", "updateAll"} -> "update"
    [] kind \in {"uninstall", "uninstallAvailable"} -> "uninstall"
    [] kind = "install" -> "install"
    [] OTHER -> "reset"

\* handler h hands the command of its kind for app a to execPromise
Runs(h, a) ==
  [h EXCEPT !.pc = "exec",
                      !.commands = Append(@, LifecycleCommand(SubcommandOfKind(h.kind), a))]

\* the dialog of handler h returned false and the handler went on
\* all the same
DismissedRuns(h) == Moves(h, Runs(h, h.app))

\* `if (!confirmed) return`
Dismissed(h) == Returns(h, h, <<>>)

\* the user dismisses the confirmation dialog of a handler
Dismiss ==
  /\ view \in {"list", "search"}
  /\ \E h \in InFlight :
       /\ h.pc = "dialog"
       /\ Dismissed(h)
  /\ UNCHANGED <<view, apps, appVersionCache, selectedBucket,
                 availableAppsCache, allAvailableApps, clock>>
  /\ UNCHANGED <<checkVars, coreVars>>

\* handleUpdateNewVersion, handleUninstallApp, handleResetApp after the
\* dialog was confirmed, up to `await execPromise(command)` of the core method
ConfirmOne ==
  /\ view = "list"
  /\ \E h \in InFlight :
       /\ h.kind \in {"update", "uninstall", "reset"}
       /\ h.pc = "dialog"
       /\ Moves(h, [Runs(h, h.app) EXCEPT !.confirmed = TRUE])
  /\ UNCHANGED <<apps, appVersionCache, selectedBucket>>
  /\ ListFrame

\* how the core method of a subcommand ends for an exit code of its command
Lifecycle(subcommand, a, exitCode) ==
  LifecycleOutcome(subcommand, a,
                   execPromise("current", LifecycleCommand(subcommand, a), exitCode))

\* handleUpdateNewVersion: `await scoop.updateNewVersion(app)` ends; on a
\* failure withErrorHandling shows the error and the handler ends
UpdateExits ==
  /\ view = "list"
  /\ \E h \in InFlight :
       /\ At(h, "update", "exec")
       /\ \E exitCode \in ExitCodes :
            LET a == h.app
                updated == Lifecycle("update", a, exitCode)
            IN IF updated.state = "thrown"
               THEN LET handled == withErrorHandling(a.appName, updated, "APP_UPDATE",
                                                     UpdateSuccess(a.appName, <<>>))
                    IN Returns(h, Handled(h, updated, handled), handled.toasts)
               ELSE Moves(h, [h EXCEPT !.pc = "reload"])
  /\ UNCHANGED <<apps, appVersionCache, selectedBucket>>
  /\ ListFrame

\* handleUpdateNewVersion: `await scoop.getAppInfo(app.appName)` ends, the
\* operation returns its result and the handler runs to its end:
\* setApps(apps.map(...)) on the apps of the handler's render, the entry
\* of the app deleted from the cache of the moment
UpdateReloads ==
  /\ view = "list"
  /\ \E h \in InFlight :
       /\ At(h, "update", "reload")
       /\ \E reloaded \in ReloadOutcomes(h.app) :
            LET a == h.app
                handled == withErrorHandling(a.appName, reloaded, "APP_UPDATE",
                                             UpdateSuccess(a.appName, <<>>))
            IN IF Succeeded(handled.result)
               THEN LET record == handled.result.records[1]
                    IN /\ apps' = ReplaceApp(h.apps, a.appName, record)
                       /\ appVersionCache' = DeleteKey(appVersionCache, a.appName)
                       /\ Returns(h, Handled(h, reloaded, handled), handled.toasts \o
                            <<Success(a.appName, UpdateSuccess(a.appName, record.version))>>)
               ELSE /\ Returns(h, Handled(h, reloaded, handled), handled.toasts)
                    /\ UNCHANGED <<apps, appVersionCache>>
  /\ UNCHANGED selectedBucket
  /\ ListFrame

\* a task whose command runs, a task that reads the record again
TaskRunning == Outcome("running", "none", <<>>, <<>>)
TaskReading == Outcome("reading", "none", <<>>, <<>>)

\* handleUpdateAllApps after the dialog was confirmed, up to
\* `await Promise.allSettled(...)`: every mapper runs to its first await,
\* the execPromise of updateNewVersion
ConfirmUpdateAll ==
  /\ view = "list"
  /\ \E h \in InFlight :
       /\ At(h, "updateAll", "dialog")
       /\ Moves(h, [h EXCEPT
                       !.confirmed = TRUE,
                       !.pc = "exec",
                       !.tasks = [i \in 1..Len(h.batch) |-> TaskRunning],
                       !.commands = [i \in 1..Len(h.batch) |->
                                       LifecycleCommand("update", h.batch[i])]])
  /\ UNCHANGED <<apps, appVersionCache, selectedBucket>>
  /\ ListFrame

\* updateResults.forEach(...): the state and the toasts after the results
\* of the tasks from index i on were handled
RECURSIVE ReportUpdates(_, _, _, _)
ReportUpdates(batch, tasks, i, st) ==
  IF i > Len(batch) THEN st
  ELSE LET a == batch[i]
           task == tasks[i]
           handled ==
             IF task.type = "record"
             THEN [apps |-> ReplaceApp(st.apps, task.records[1].appName, task.records[1]),
                   cache |-> DeleteKey(st.cache, a.appName),
                   toasts |-> Append(st.toasts,
                                     Success(a.appName,
                                             UpdateSuccess(a.appName, task.records[1].version)))]
             ELSE IF task.state = "thrown"
             THEN [st EXCEPT !.toasts =
                     Append(@, Failure(a.appName, UpdateFailed(a.appName, task.text)))]
             ELSE st
       IN ReportUpdates(batch, tasks, i + 1, handled)

\* a task of the bulk update ends, or goes on to read the record; the
\* last task to end lets Promise.allSettled resolve: the results are
\* handled in order and the completion toast is shown
TaskStep(h, tasks) ==
  IF AllEnded(tasks)
  THEN LET reported == ReportUpdates(h.batch, tasks, 1,
                                     [apps |-> apps, cache |-> appVersionCache,
                                      toasts |-> <<>>])
       IN /\ apps' = reported.apps
          /\ appVersionCache' = reported.cache
          /\ Returns(h, [h EXCEPT !.tasks = tasks],
                     Append(reported.toasts,
                            Success("", BulkUpdateCompleted(Len(h.batch)))))
  ELSE /\ Moves(h, [h EXCEPT !.tasks = tasks])
       /\ UNCHANGED <<apps, appVersionCache>>

\* a task of the bulk update: `await scoop.updateNewVersion(app)` ends; the
\* catch of the mapper keeps the message of a failure
UpdateTaskExits ==
  /\ view = "list"
  /\ \E h \in InFlight :
       /\ At(h, "updateAll", "exec")
       /\ \E i \in 1..Len(h.tasks) :
            /\ h.tasks[i].state = "running"
            /\ \E exitCode \in ExitCodes :
                 LET updated == Lifecycle("update", h.batch[i], exitCode)
                 IN TaskStep(h, [h.tasks EXCEPT ![i] =
                                   IF updated.state = "thrown" THEN updated
                                   ELSE TaskReading])
  /\ UNCHANGED selectedBucket
  /\ ListFrame

\* a task of the bulk update: `await scoop.getAppInfo(app.appName)` ends
UpdateTaskReloads ==
  /\ view = "list"
  /\ \E h \in InFlight :
       /\ At(h, "updateAll", "exec")
       /\ \E i \in 1..Len(h.tasks) :
            /\ h.tasks[i].state = "reading"
            /\ \E reloaded \in ReloadOutcomes(h.batch[i]) :
                 TaskStep(h, [h.tasks EXCEPT ![i] = reloaded])
  /\ UNCHANGED selectedBucket
  /\ ListFrame

\* handleRefreshAppList after the dialog was confirmed, up to
\* `await scoop.getScoopList()`: the version cache is cleared
ConfirmRefresh ==
  /\ view = "list"
  /\ \E h \in InFlight :
       /\ At(h, "refresh", "dialog")
       /\ Moves(h, [h EXCEPT !.confirmed = TRUE, !.pc = "listing"])
  /\ appVersionCache' = NoCache
  /\ UNCHANGED <<apps, selectedBucket>>
  /\ ListFrame

\* handleRefreshAppList: getScoopList ends
RefreshReturns ==
  /\ view = "list"
  /\ \E h \in InFlight :
       /\ At(h, "refresh", "listing")
       /\ \E listed \in ScoopListOutcomes :
            LET handled == withErrorHandling("", listed, "APP_LIST", RefreshCompleted)
            IN /\ Returns(h, Handled(h, listed, handled), handled.toasts)
               /\ apps' = IF Succeeded(handled.result)
                          THEN handled.result.records ELSE apps
  /\ UNCHANGED <<appVersionCache, selectedBucket>>
  /\ ListFrame

\* what `return true` after the core method leaves withErrorHandling with
Operation(subcommand, a, exitCode) ==
  IF Lifecycle(subcommand, a, exitCode).state = "thrown"
  THEN Lifecycle(subcommand, a, exitCode) ELSE ReturnedTrue

\* the handler dropping the app whatever withErrorHandling returned
UninstalledAlways(h, handled) ==
  /\ apps' = RemoveApp(apps, h.app.appName)
  /\ appVersionCache' = DeleteKey(appVersionCache, h.app.appName)

\* handleUninstallApp after withErrorHandling: `if (result)` the app leaves
\* the list and the cache of the moment
Uninstalled(h, handled) ==
  IF Succeeded(handled.result)
  THEN /\ apps' = RemoveApp(apps, h.app.appName)
       /\ appVersionCache' = DeleteKey(appVersionCache, h.app.appName)
  ELSE UNCHANGED <<apps, appVersionCache>>

\* handleUninstallApp: `await scoop.uninstallApp(app)` ends
UninstallExits ==
  /\ view = "list"
  /\ \E h \in InFlight :
       /\ At(h, "uninstall", "exec")
       /\ \E exitCode \in ExitCodes :
            LET a == h.app
                handled == withErrorHandling(a.appName, Operation("uninstall", a, exitCode),
                                             "APP_UNINSTALL", UninstallSuccess(a.appName))
            IN /\ Returns(h, Handled(h, Operation("uninstall", a, exitCode), handled),
                          handled.toasts)
               /\ Uninstalled(h, handled)
  /\ UNCHANGED selectedBucket
  /\ ListFrame

\* handleResetApp: `await scoop.resetApp(app)` ends
ResetExits ==
  /\ view = "list"
  /\ \E h \in InFlight :
       /\ At(h, "reset", "exec")
       /\ \E exitCode \in ExitCodes :
            LET a == h.app
                handled == withErrorHandling(a.appName, Operation("reset", a, exitCode),
                                             "APP_RESET", ResetSuccess(a.appName))
            IN Returns(h, Handled(h, Operation("reset", a, exitCode), handled),
                       handled.toasts)
  /\ UNCHANGED <<apps, appVersionCache, selectedBucket>>
  /\ ListFrame
-----------------------------------------------------------------------------
(* The catalog search view, src/unnamed/part_001 *)

\* CACHE_TTL, in milliseconds
CACHE_TTL == 30 * 60 * 1000

\* String.prototype.toLowerCase on the names of the model
ToLower(name) == IF name = "Git" THEN "git" ELSE name

\* the fields of AvailableAppInfo the view reads
AvailableApp(appName, bucket, installed) ==
  [appName |-> appName, bucket |-> bucket, installed |-> installed]

\* scoop.getAllBuckets(): the bucket directories on the disk
BucketsOnDisk == <<BucketMain, BucketExtras>>

\* the descriptor files of a bucket, by file stem
DescriptorsOf(bucket) == IF bucket = BucketMain THEN <<"Git">> ELSE <<"vim">>

\* installedApps: new Set(installedAppList.map(app => app.appName.toLowerCase()))
installedApps(list) == {ToLower(list[i].appName) : i \in 1..Len(list)}

\* scoop.loadAppsFromBucket(bucket, installedApps): one entry per descriptor,
\* installed by case-insensitive membership in the installed names
loadAppsFromBucket(bucket, installed) ==
  [i \in 1..Len(DescriptorsOf(bucket)) |->
     AvailableApp(DescriptorsOf(bucket)[i], bucket,
                  ToLower(DescriptorsOf(bucket)[i]) \in installed)]

\* the call of loadAppsFromBucket as the handler's log keeps it
LoadCall(bucket) == <<"loadAppsFromBucket ">> \o bucket

\* an entry of AvailableAppsCache
CacheEntry(entries, lastUpdated) == [apps |-> entries, lastUpdated |-> lastUpdated]

\* isCacheExpired(bucket) on the cache of a render, at time now
isCacheExpired(cache, bucket, now) ==
  IF bucket \notin DOMAIN cache THEN TRUE
  ELSE now - cache[bucket].lastUpdated > CACHE_TTL

\* availableAppsCache[bucket].apps.map(app => ({ ...app, installed:
\* installedApps.has(app.appName.toLowerCase()) }))
FromCache(cache, bucket, installed) ==
  [i \in 1..Len(cache[bucket].apps) |->
     [cache[bucket].apps[i] EXCEPT
        !.installed = ToLower(cache[bucket].apps[i].appName) \in installed]]

\* allApps.sort((a, b) => a.appName.localeCompare(b.appName)) on the names
\* of the model
SortByName(list) ==
  SelectSeq(list, LAMBDA a : ToLower(a.appName) = "git")
    \o SelectSeq(list, LAMBDA a : ToLower(a.appName) # "git")

\* bucketResults.forEach(... allApps.push(...result.value.apps))
RECURSIVE AllApps(_, _)
AllApps(tasks, i) ==
  IF i > Len(tasks) THEN <<>> ELSE tasks[i].records \o AllApps(tasks, i + 1)

\* apps.map(a => a.appName === app.appName ? { ...a, installed } : a)
MarkInstalled(list, appName, installed) ==
  [i \in 1..Len(list) |->
     IF list[i].appName = appName THEN [list[i] EXCEPT !.installed = installed]
     ELSE list[i]]

\* ToastMessages.APP_SEARCH and APP_INSTALL
SearchCompleted(count) ==
  Message("Apps Loaded",
          <<"Loaded ", IF count = 0 THEN "0" ELSE DigitOf(count), " available apps">>)
InstallSuccess(appName) ==
  Message("App Installed", <<"Successfully installed ", appName>>)

\* scoop.installApp(bucket, appName): `scoop install ${bucket}/${appName}`
\* handed to execPromise, a failure of the command thrown on with the name
InstallCommand(a) == LifecycleCommand("install", a)
installApp(a, exitCode) ==
  LET executed == execPromise("current", InstallCommand(a), exitCode)
  IN IF executed.state = "thrown"
     THEN Thrown(<<"cannot install app ", a.appName, ": ">> \o executed.text)
     ELSE ReturnedVoid

\* the search view is open and the user can invoke one more handler
SearchOpen == view = "search" /\ invoked < MaxHandlers

\* what the handlers of the search view leave alone
SearchFrame ==
  /\ UNCHANGED <<view, appVersionCache>>
  /\ UNCHANGED <<checkVars, coreVars>>

\* the entry of the catalog an action panel belongs to, as the handler
\* keeps it
Entry(a) == InstalledApp(a.appName, <<>>, a.bucket)

\* the scope of a refresh: the selected bucket, or none
Scope(bucket) == InstalledApp("", <<>>, bucket)

\* a load starts: the installed names and the time of that moment
Starts(handler, list) ==
  [handler EXCEPT !.started = [installed |-> installedApps(list), at |-> clock]]

\* useEffect(() => loadAllAvailableApps(), [installedAppList]): the render
\* that follows setInstalledAppList(list) calls loadAllAvailableApps, which
\* runs up to `await scoop.getAllBuckets()`
EffectLoad(list) ==
  Starts([Handler("load", NoApp, "buckets", <<>>, <<>>, <<>>) EXCEPT !.apps = list], list)

\* the dropdown of the search view
SelectAvailableBucket ==
  /\ SearchOpen
  /\ \E b \in {<<>>} \cup {a.bucket : a \in Range(allAvailableApps)} :
       /\ b # selectedBucket
       /\ selectedBucket' = b
  /\ ended' = NoneReturned
  /\ UNCHANGED <<apps, handlers, invoked, availableAppsCache, allAvailableApps, clock>>
  /\ SearchFrame

\* time passes: the cached entries of the session's first load expire
TimePasses ==
  /\ view = "search"
  /\ clock <= CACHE_TTL
  /\ clock' = CACHE_TTL + 1
  /\ ended' = NoneReturned
  /\ UNCHANGED <<apps, selectedBucket, handlers, invoked, availableAppsCache,
                 allAvailableApps>>
  /\ SearchFrame

\* handleInstallApp up to `await confirmAlert(...)`
HandleInstallApp ==
  /\ SearchOpen
  /\ \E a \in Range(FilteredApps(allAvailableApps, selectedBucket)) :
       /\ ~a.installed
       /\ Invoke("install", Entry(a), "dialog", <<>>, <<>>)
  /\ UNCHANGED <<apps, selectedBucket, availableAppsCache, allAvailableApps, clock>>
  /\ SearchFrame

\* handleUninstallApp of the search view up to `await confirmAlert(...)`
HandleUninstallAvailable ==
  /\ SearchOpen
  /\ \E a \in Range(FilteredApps(allAvailableApps, selectedBucket)) :
       /\ a.installed
       /\ Invoke("uninstallAvailable", Entry(a), "dialog", <<>>, <<>>)
  /\ UNCHANGED <<apps, selectedBucket, availableAppsCache, allAvailableApps, clock>>
  /\ SearchFrame

\* handleRefreshAppsList up to `await confirmAlert(...)`
HandleRefreshAppsList ==
  /\ SearchOpen
  /\ Invoke("refreshAvailable", Scope(selectedBucket), "dialog", <<>>, <<>>)
  /\ UNCHANGED <<apps, selectedBucket, availableAppsCache, allAvailableApps, clock>>
  /\ SearchFrame

\* handleInstallApp, handleUninstallApp after the dialog was confirmed, up
\* to `await execPromise(command)` of the core method
ConfirmAvailable ==
  /\ view = "search"
  /\ \E h \in InFlight :
       /\ h.kind \in {"install", "uninstallAvailable"}
       /\ h.pc = "dialog"
       /\ Moves(h, [Runs(h, h.app) EXCEPT !.confirmed = TRUE])
  /\ UNCHANGED <<apps, selectedBucket, availableAppsCache, allAvailableApps, clock>>
  /\ SearchFrame

\* the errorToast a handler of the search view passes
ErrorToastOf(kind) ==
  CASE kind = "install" -> "APP_INSTALL"
    [] kind = "uninstallAvailable" -> "APP_UNINSTALL"
    [] OTHER -> "APP_SEARCH"

\* the successToast a handler of the search view passes
SuccessToastOf(h) ==
  CASE h.kind = "install" -> InstallSuccess(h.app.appName)
    [] h.kind = "uninstallAvailable" -> UninstallSuccess(h.app.appName)
    [] OTHER -> SearchCompleted(0)

\* `await scoop.installApp(...)` / `await scoop.uninstallApp(...)` ends: on a
\* failure withErrorHandling shows the error and the handler ends
AvailableExits ==
  /\ view = "search"
  /\ \E h \in InFlight :
       /\ h.kind \in {"install", "uninstallAvailable"}
       /\ h.pc = "exec"
       /\ \E exitCode \in ExitCodes :
            LET executed == IF h.kind = "install" THEN installApp(h.app, exitCode)
                            ELSE Lifecycle("uninstall", h.app, exitCode)
            IN IF executed.state = "thrown"
               THEN LET handled == withErrorHandling(h.app.appName, executed,
                                                     ErrorToastOf(h.kind), SuccessToastOf(h))
                    IN Returns(h, Handled(h, executed, handled), handled.toasts)
               ELSE Moves(h, [h EXCEPT !.pc = "listing"])
  /\ UNCHANGED <<apps, selectedBucket, availableAppsCache, allAvailableApps, clock>>
  /\ SearchFrame

\* what scoop.getScoopList() finds after the command of handler h
ListedAfter(h) ==
  IF h.kind = "install"
  THEN IF ToLower(h.app.appName) \in installedApps(apps) THEN apps
       ELSE Append(apps, InstalledApp(h.app.appName, Version200, h.app.bucket))
  ELSE SelectSeq(apps, LAMBDA a : ToLower(a.appName) # ToLower(h.app.appName))

\* `await scoop.getScoopList()` ends: setInstalledAppList(newInstalledList),
\* `return true`, the success toast and setAllAvailableApps(apps => ...);
\* the new installed list makes the effect load the catalog again
AvailableLists ==
  /\ view = "search"
  /\ \E h \in InFlight :
       /\ h.kind \in {"install", "uninstallAvailable"}
       /\ h.pc = "listing"
       /\ \E listed \in {ReturnedList(ListedAfter(h)), Thrown(RootInvalid)} :
            LET operation == IF listed.state = "thrown" THEN listed ELSE ReturnedTrue
                handled == withErrorHandling(h.app.appName, operation,
                                             ErrorToastOf(h.kind), SuccessToastOf(h))
                returned == Released([Handled(h, operation, handled)
                                        EXCEPT !.toasts = @ \o handled.toasts])
            IN IF Succeeded(handled.result)
               THEN /\ apps' = listed.records
                    /\ allAvailableApps' = MarkInstalled(allAvailableApps, h.app.appName,
                                                         h.kind = "install")
                    /\ handlers' = (handlers (-) SetToBag({h}))
                                      (+) SetToBag({EffectLoad(listed.records)})
                    /\ ended' = Returned(returned)
                    /\ UNCHANGED invoked
               ELSE /\ Returns(h, Handled(h, operation, handled), handled.toasts)
                    /\ UNCHANGED <<apps, allAvailableApps>>
  /\ UNCHANGED <<selectedBucket, availableAppsCache, clock>>
  /\ SearchFrame

\* handleRefreshAppsList after the dialog was confirmed: the cache of the
\* moment loses the selected bucket, or everything, and the
\* loadAllAvailableApps of the handler's render runs up to
\* `await scoop.getAllBuckets()`
ConfirmRefreshAvailable ==
  /\ view = "search"
  /\ \E h \in InFlight :
       /\ At(h, "refreshAvailable", "dialog")
       /\ Moves(h, Starts([h EXCEPT !.confirmed = TRUE, !.pc = "buckets"], apps))
       /\ availableAppsCache' = IF h.app.bucket # <<>>
                                THEN DeleteKey(availableAppsCache, h.app.bucket)
                                ELSE <<>>
  /\ UNCHANGED <<apps, selectedBucket, allAvailableApps, clock>>
  /\ SearchFrame

\* loadAllAvailableApps after every bucket settled: setAvailableAppsCache(
\* newCache), the sorted list returned to withErrorHandling, which shows its
\* success toast, then setAllAvailableApps(result) and the toast with the
\* number of apps
LoadReturns(h, loaded) ==
  LET listed == ReturnedList(SortByName(AllApps(loaded.tasks, 1)))
      handled == withErrorHandling("", listed, ErrorToastOf(h.kind), SuccessToastOf(h))
  IN /\ availableAppsCache' = loaded.cache
     /\ allAvailableApps' = handled.result.records
     /\ Returns(h, Handled(loaded, listed, handled),
                handled.toasts \o <<Success("", SearchCompleted(Len(listed.records)))>>)

\* the mapper of a bucket up to its first await: an unexpired bucket is
\* served from the cache of the render, an expired one is read again
BucketStarts(h, bucket) ==
  IF ~isCacheExpired(h.cache, bucket, clock)
  THEN ReturnedList(FromCache(h.cache, bucket, installedApps(h.apps)))
  ELSE NoOutcome

\* loadAllAvailableApps: `await scoop.getAllBuckets()` ends and the mapper
\* of every bucket runs to its first await; with every bucket served from
\* the cache the load runs to its end
BucketsListed ==
  /\ view = "search"
  /\ \E h \in InFlight :
       /\ h.kind \in {"load", "refreshAvailable"}
       /\ h.pc = "buckets"
       /\ LET tasks == [i \in 1..Len(BucketsOnDisk) |-> BucketStarts(h, BucketsOnDisk[i])]
              reads == SelectSeq(BucketsOnDisk,
                                 LAMBDA b : BucketStarts(h, b).state = "pending")
              loaded == [h EXCEPT !.pc = "loading", !.batch = BucketsOnDisk,
                                  !.tasks = tasks,
                                  !.commands = @ \o [i \in 1..Len(reads) |-> LoadCall(reads[i])]]
          IN IF AllEnded(tasks)
             THEN LoadReturns(h, loaded)
             ELSE /\ Moves(h, loaded)
                  /\ UNCHANGED <<availableAppsCache, allAvailableApps>>
  /\ UNCHANGED <<apps, selectedBucket, clock>>
  /\ SearchFrame

\* `await scoop.loadAppsFromBucket(bucket, installedApps)` of one bucket
\* ends and newCache[bucket] is written (the handler's cache is newCache
\* from the mappers' start on); after the last one the load runs to its end
BucketLoads ==
  /\ view = "search"
  /\ \E h \in InFlight :
       /\ h.kind \in {"load", "refreshAvailable"}
       /\ h.pc = "loading"
       /\ \E i \in 1..Len(h.tasks) :
            /\ h.tasks[i].state = "pending"
            /\ LET entries == loadAppsFromBucket(h.batch[i], installedApps(h.apps))
                   newCache == [b \in DOMAIN h.cache \cup {h.batch[i]} |->
                                  IF b = h.batch[i] THEN CacheEntry(entries, clock)
                                  ELSE h.cache[b]]
                   loaded == [h EXCEPT !.tasks[i] = ReturnedList(entries),
                                       !.cache = newCache]
               IN IF AllEnded(loaded.tasks)
                  THEN LoadReturns(h, loaded)
                  ELSE /\ Moves(h, loaded)
                       /\ UNCHANGED <<availableAppsCache, allAvailableApps>>
  /\ UNCHANGED <<apps, selectedBucket, clock>>
  /\ SearchFrame

\* the search view once the load of its first render is over: git is
\* installed, both buckets were read at time 0
InitSearch ==
  /\ view = "search"
  /\ apps = <<Git(Version123)>>
  /\ appVersionCache = NoCache
  /\ selectedBucket = <<>>
  /\ handlers = EmptyBag
  /\ ended = NoneReturned
  /\ invoked = 0
  /\ availableAppsCache =
       [b \in Range(BucketsOnDisk) |->
          CacheEntry(loadAppsFromBucket(b, installedApps(<<Git(Version123)>>)), 0)]
  /\ allAvailableApps =
       SortByName(loadAppsFromBucket(BucketMain, installedApps(<<Git(Version123)>>))
                    \o loadAppsFromBucket(BucketExtras, installedApps(<<Git(Version123)>>)))
  /\ clock = 0

-----------------------------------------------------------------------------
(* The views as a state machine *)

\* neither a version check nor a call into the core is modelled on its own
EngineIdle ==
  /\ app = ListedApp
  /\ appVersionInfo = NoCache
  /\ pc = "idle"
  /\ requests = <<>>
  /\ response = NoResponse
  /\ compiled = <<>>
  /\ reSubject = Undefined
  /\ matches = <<>>
  /\ latest = NoRelease
  /\ raw = NotStarted
  /\ settled = "pending"
  /\ result = <<>>
  /\ toast = "none"
  /\ versionStatus = NotRendered
  /\ call = NoCall
  /\ cpc = "ready"
  /\ effects = <<>>
  /\ outcome = NoOutcome
  /\ results = <<>>

\* the installed list once the effect of its first render is over: apps
\* holds the list getScoopList gave (or the one useCachedState persisted),
\* appVersionInfo what an earlier session left
InitList ==
  /\ view = "list"
  /\ apps = <<Git(Version123), Vim(Version123)>>
  /\ appVersionCache \in PersistedVersionCaches
  /\ selectedBucket = <<>>
  /\ handlers = EmptyBag
  /\ ended = NoneReturned
  /\ invoked = 0
  /\ availableAppsCache = <<>>
  /\ allAvailableApps = <<>>
  /\ clock = 0

InitViews ==
  /\ EngineIdle
  /\ (InitList \/ InitSearch)

NextViews ==
  \/ SelectBucket
  \/ HandleCheckAllNewVersions
  \/ CheckSettles
  \/ HandleUpdateNewVersion
  \/ HandleUpdateAllApps
  \/ HandleRefreshAppList
  \/ HandleUninstallApp
  \/ HandleResetApp
  \/ Dismiss
  \/ ConfirmOne
  \/ UpdateExits
  \/ UpdateReloads
  \/ ConfirmUpdateAll
  \/ UpdateTaskExits
  \/ UpdateTaskReloads
  \/ ConfirmRefresh
  \/ RefreshReturns
  \/ UninstallExits
  \/ ResetExits
  \/ SelectAvailableBucket
  \/ TimePasses
  \/ HandleInstallApp
  \/ HandleUninstallAvailable
  \/ HandleRefreshAppsList
  \/ ConfirmAvailable
  \/ AvailableExits
  \/ AvailableLists
  \/ ConfirmRefreshAvailable
  \/ BucketsListed
  \/ BucketLoads

SpecViews == InitViews /\ [][NextViews]_vars

-----------------------------------------------------------------------------
(* Claims about the views *)

\* the handler that returned in the last step
Last == ended.handler

\* the toasts with which a bulk update reported the outcome for a package
OutcomeToasts(handler, appName) ==
  SelectSeq(handler.toasts,
            LAMBDA t : t.about = appName /\ t.title \in {"Update Completed", "Update Failed"})

\* C21: in a bulk update (handleUpdateAllApps) the update commands of all
\* selected packages are started together, before any of them has ended;
\* when the handler returns, it has reported for every package of the batch
\* exactly one outcome that depends on that package's own task only (the
\* failure toast with the task's error message, or the success toast with
\* the version of the refreshed record), and the completion toast comes last.
C21_BulkUpdate ==
  /\ \A h \in InFlight :
       (h.kind = "updateAll" /\ h.pc = "exec") =>
          h.commands = [i \in 1..Len(h.batch) |-> LifecycleCommand("update", h.batch[i])]
  /\ (Last.kind = "updateAll" /\ Last.confirmed) =>
       /\ Len(Last.toasts) > 0
       /\ Last.toasts[Len(Last.toasts)] = Success("", BulkUpdateCompleted(Len(Last.batch)))
       /\ \A i \in 1..Len(Last.batch) :
            LET name == Last.batch[i].appName
                task == Last.tasks[i]
                shown == OutcomeToasts(Last, name)
            IN /\ Len(shown) = 1
               /\ task.state = "thrown" =>
                    shown[1] = Failure(name, UpdateFailed(name, task.text))
               /\ task.state = "returned" =>
                    /\ task.type = "record"
                    /\ shown[1] = Success(name, UpdateSuccess(name, task.records[1].version))


\* C22: a bulk version check (handleCheckAllNewVersions) has one check for
\* every package of the filtered view it was invoked on and shows nothing
\* while one of them is pending; when it returns, every check has settled,
\* the version cache holds for every checked package an entry whose
\* newVersion is that package's own result ('' for a failed check), and the
\* completion toast is the only toast it showed.
C22_BulkCheck ==
  /\ \A h \in InFlight :
       h.kind = "checkAll" =>
          /\ Len(h.tasks) = Len(h.batch)
          /\ h.batch # <<>>
          /\ \E bucket \in {<<>>, BucketMain, BucketExtras} :
               h.batch = FilteredApps(h.batch, bucket)
          /\ \E i \in 1..Len(h.tasks) : h.tasks[i].state = "pending"
          /\ h.toasts = <<>>
  /\ Last.kind = "checkAll" =>
       /\ Len(Last.tasks) = Len(Last.batch)
       /\ AllEnded(Last.tasks)
       /\ \A i \in 1..Len(Last.batch) :
            /\ Last.batch[i].appName \in DOMAIN appVersionCache
            /\ appVersionCache[Last.batch[i].appName].newVersion = Last.tasks[i].text
       /\ Len(Last.toasts) = 1
       /\ Last.toasts[1].title = "Check Completed"

\* a bulk check of two packages returned: the first check failed, the second
\* found version 2.0.0, and the cache holds '' and 2.0.0 for them
C22_Witness ==
  /\ Last.kind = "checkAll"
  /\ Len(Last.batch) = 2
  /\ Last.tasks[1].text = <<>>
  /\ Last.tasks[2].text = Version200
  /\ appVersionCache[Last.batch[1].appName].newVersion = <<>>
  /\ appVersionCache[Last.batch[2].appName].newVersion = Version200

\* the packages of a batch whose own result is a version other than the
\* installed one
FoundUpdates(batch, tasks) ==
  {i \in 1..Len(batch) : tasks[i].text # <<>> /\ tasks[i].text # batch[i].version}

\* C26: the completion toast of a bulk version check announces the number
\* of checked packages whose result of that same check is non-empty and
\* differs from the installed version ('All apps are up-to-date' when there
\* is none).
C26_CompletionCount ==
  Last.kind = "checkAll" =>
     Last.toasts[Len(Last.toasts)] =
        Success("", CheckCompleted(Cardinality(FoundUpdates(Last.batch, Last.tasks))))

\* C27: the cache write of a bulk version check changes only the entries of
\* the packages it checked: after it returned, a package outside the batch
\* has a cache entry only if it had the same entry just before the write.
C27_WriteOnlyChecked ==
  Last.kind = "checkAll" =>
     \A n \in DOMAIN appVersionCache :
        (\A i \in 1..Len(Last.batch) : Last.batch[i].appName # n) =>
           /\ n \in DOMAIN ended.cache
           /\ appVersionCache[n] = ended.cache[n]


\* C24: a handler that passed an operation to withErrorHandling: when the
\* operation threw, withErrorHandling returned null and the handler showed
\* the failure toast with the error's message and nothing else; when the
\* operation completed, withErrorHandling returned the operation's result
\* and no failure toast was shown; and the result is null if and only if
\* the operation failed.
C24_Discriminated ==
  Last.operation.state # "pending" =>
     LET name == Last.app.appName
     IN /\ Last.operation.state = "thrown" =>
             /\ Last.result = ReturnedNull
             /\ \E template \in {"APP_UPDATE", "APP_UNINSTALL", "APP_RESET", "APP_LOADING",
                                 "APP_INSTALL", "APP_SEARCH"} :
                  Last.toasts =
                     <<Failure(name, ErrorToast(template, name, Last.operation.text))>>
        /\ Last.operation.state = "returned" =>
             /\ Last.result = Last.operation
             /\ \A i \in 1..Len(Last.toasts) : Last.toasts[i].style # "failure"
        /\ Last.result.type = "null" <=> Last.operation.state = "thrown"


\* C30: handleUninstallApp of the installed list, compared with the list and
\* the cache it found when the uninstall command ended: when the command
\* succeeded, the package has left the list and the cache and the records
\* and entries of all other packages are as they were; when it failed, the
\* list and the cache are as they were.
C30_UninstallFrame ==
  (Last.kind = "uninstall" /\ Last.confirmed) =>
     LET name == Last.app.appName
     IN IF Last.operation.state = "returned"
        THEN /\ \A i \in 1..Len(apps) : apps[i].appName # name
             /\ name \notin DOMAIN appVersionCache
             /\ apps = SelectSeq(ended.apps, LAMBDA a : a.appName # name)
             /\ DOMAIN appVersionCache = DOMAIN ended.cache \ {name}
             /\ \A n \in DOMAIN appVersionCache : appVersionCache[n] = ended.cache[n]
        ELSE apps = ended.apps /\ appVersionCache = ended.cache

\* an uninstall succeeded while two packages were listed and cached: one
\* package and one entry are left
C30_Witness ==
  /\ Last.kind = "uninstall"
  /\ Last.confirmed
  /\ Last.operation.state = "returned"
  /\ Len(ended.apps) = 2
  /\ Last.app.appName \in DOMAIN ended.cache
  /\ Len(apps) = 1
  /\ DOMAIN appVersionCache # {}


\* C29: after a single-package check (handleCheckNewVersion) has reported
\* 'Update Available' for the package, the version status the Update
\* action reads (getAppVersionStatus on the cache of the moment) has
\* hasUpdate = true, so that handleUpdateNewVersion goes on to its
\* confirmation and does not report the package as up to date.
C29_CheckThenUpdate ==
  (pc = "reported" /\ toast = "Update Available") =>
     getAppVersionStatus(app, appVersionInfo).hasUpdate


\* C23: when a catalog load (loadAllAvailableApps, run by the effect or by
\* a refresh) completes, the installed flag of every entry of the catalog
\* it stored equals the membership of the entry's lower-cased name in the
\* installed names as they were when that load started, for entries read
\* from a bucket and for entries served from the cache alike.
C23_InstalledSnapshot ==
  (Last.kind \in {"load", "refreshAvailable"} /\ Last.result.type = "list") =>
     /\ allAvailableApps = Last.result.records
     /\ \A i \in 1..Len(allAvailableApps) :
          allAvailableApps[i].installed
             = (ToLower(allAvailableApps[i].appName) \in Last.started.installed)

\* the handlers that run a command after a confirmation dialog
Confirming == {"update", "updateAll", "uninstall", "reset", "install", "uninstallAvailable"}

\* a handler with a command in its log had its dialog confirmed
CommandsConfirmed ==
  \A h \in InFlight \cup {Last} :
     (h.kind \in Confirming /\ h.commands # <<>>) => h.confirmed

\* a step in which a handler returns without a confirmation leaves the
\* catalog, the installed list and the caches as they were and has run no
\* command
DismissedChangesNothing ==
  (ended'.handler.kind \in Confirming /\ ~ended'.handler.confirmed) =>
     /\ ended'.handler.commands = <<>>
     /\ UNCHANGED <<apps, appVersionCache, allAvailableApps, availableAppsCache>>

\* C25: no install, update, uninstall or reset command is executed unless
\* the confirmation dialog of that same handler returned confirmed before
\* (single update, bulk update, uninstall in both views, reset, install),
\* and a handler whose dialog is dismissed runs no command and leaves the
\* catalog, the installed list and the version cache unchanged.
C25_ConfirmedFirst ==
  /\ []CommandsConfirmed
  /\ [][DismissedChangesNothing]_vars

\* the dialog of an install was dismissed while a confirmed uninstall of
\* the search view has its command running
C25_Witness ==
  /\ Last.kind = "install"
  /\ ~Last.confirmed
  /\ Last.toasts = <<>>
  /\ \E h \in InFlight :
       /\ h.kind = "uninstallAvailable"
       /\ h.confirmed
       /\ h.commands = <<LifecycleCommand("uninstall", h.app)>>

\* C28: when a confirmed 'Refresh Available Apps' completes, every bucket
\* in its scope (the selected bucket, or every bucket with no filter) was
\* read again through loadAppsFromBucket, and the cache holds an entry for
\* it whose lastUpdated is not older than the confirmation.
C28_RefreshReloads ==
  (Last.kind = "refreshAvailable" /\ Last.confirmed /\ Last.result.type = "list") =>
     \A b \in Range(BucketsOnDisk) :
        (Last.app.bucket = <<>> \/ Last.app.bucket = b) =>
           /\ LoadCall(b) \in Range(Last.commands)
           /\ b \in DOMAIN availableAppsCache
           /\ availableAppsCache[b].lastUpdated >= Last.started.at

=============================================================================
